---------------------------- MODULE Spec2Model ----------------------------
(***************************************************************************)
(* The plan codec of mcp-cochat (plan-format.ts): planToMarkdown,          *)
(* markdownToPlan and isPlanMessage; the plan tools built on it            *)
(* (plans_share, plans_update, plans_pull, plans_list) with the tracking   *)
(* store of config.ts; and the plan resource with its polling              *)
(* subscriptions (plan-resource.ts).                                       *)
(*                                                                         *)
(* A JavaScript string is a sequence of one-character strings, so that     *)
(* split, trim, includes and the regular expressions of the parser are     *)
(* computed character by character.  An optional property of an object     *)
(* (description, children) is a record field that is present or absent.    *)
(***************************************************************************)
EXTENDS Integers, Sequences, FiniteSets, TLC

VARIABLES
  plan,           \* the Plan handed to planToMarkdown
  md,             \* the document: serialized, or fetched from a chat
  result,         \* what markdownToPlan returned
  pc,             \* the position of the codec
  chats,          \* the chats of the CoChat backend, by chat id
  store,          \* store.plans of the tracking store, in the order of its keys
  clock,          \* the wall clock of the server, in milliseconds
  subscriptions,  \* the Map of plan-resource.ts, by resource URI
  polls,          \* the polls whose getChat has been answered and not yet handled
  observed,       \* by URI, updated_at of the chat when it was last looked at
  reply,          \* the outcome of the last handler that ran
  folders,        \* the folders of the CoChat backend, in the order of their creation
  projects,       \* store.projects of the tracking store, by project path
  calls,          \* the calls of resolveCurrentProjectFolder, by the order of their start
  timers,         \* the intervals that setInterval made and clearInterval did not clear
  writers         \* by process, a store helper between its loadStore and its saveStore

codecVars == <<plan, md, result, pc>>

serverVars ==
  <<chats, store, clock, subscriptions, polls, observed, reply,
    folders, projects, calls, timers, writers>>

projectVars == <<folders, projects, calls>>

vars ==
  <<plan, md, result, pc, chats, store, clock, subscriptions, polls, observed, reply,
    folders, projects, calls, timers, writers>>

(***************************************************************************)
(* String literals of the source.                                          *)
(***************************************************************************)
PLAN_MARKER ==
  <<"<", "!", "-", "-", " ", "c", "o", "c", "h", "a", "t", "-", "p", "l", "a",
    "n", "-", "m", "c", "p", " ", "-", "-", ">">>

TITLE_PREFIX == <<"#", " ", "P", "l", "a", "n", ":", " ">>

META_PREFIX == <<">", " ", "S", "h", "a", "r", "e", "d", " ", "f", "r", "o", "m", " ">>

SHARED_FROM == <<"S", "h", "a", "r", "e", "d", " ", "f", "r", "o", "m", " ">>

UPDATED_SEP == <<" ", "|", " ", "U", "p", "d", "a", "t", "e", "d", ":", " ">>

UPDATED == <<"U", "p", "d", "a", "t", "e", "d", ":", " ">>

OVERVIEW == <<"#", "#", " ", "O", "v", "e", "r", "v", "i", "e", "w">>

TASKS == <<"#", "#", " ", "T", "a", "s", "k", "s">>

RULE == <<"-", "-", "-">>

FOOTER ==
  <<"*", "R", "e", "p", "l", "y", " ", "b", "e", "l", "o", "w", " ", "w", "i",
    "t", "h", " ", "f", "e", "e", "d", "b", "a", "c", "k", ".", " ", "T", "h",
    "e", " ", "p", "l", "a", "n", " ", "a", "u", "t", "h", "o", "r", " ", "c",
    "a", "n", " ", "p", "u", "l", "l", " ", "y", "o", "u", "r", " ", "c", "o",
    "m", "m", "e", "n", "t", "s", " ", "b", "a", "c", "k", " ", "i", "n", "t",
    "o", " ", "t", "h", "e", "i", "r", " ", "l", "o", "c", "a", "l", " ", "s",
    "e", "s", "s", "i", "o", "n", ".", "*">>

IN_PROGRESS ==
  <<"*", "(", "i", "n", " ", "p", "r", "o", "g", "r", "e", "s", "s", ")", "*">>

CANCELLED == <<"~", "~", "c", "a", "n", "c", "e", "l", "l", "e", "d", "~", "~">>

UNTITLED == <<"U", "n", "t", "i", "t", "l", "e", "d", " ", "P", "l", "a", "n">>

UNKNOWN == <<"u", "n", "k", "n", "o", "w", "n">>

HIGH == <<"H", "I", "G", "H">>

MED == <<"M", "E", "D">>

LOW == <<"L", "O", "W">>

EMPTY == <<>>

NL == <<"\n">>

SP == <<" ">>

(***************************************************************************)
(* The string operations of JavaScript the codec uses.                     *)
(***************************************************************************)
\* \s of a regular expression and the characters String.prototype.trim removes
IsSpace(c) == c \in {" ", "\t", "\n", "\r", "\f"}

\* the characters "." of a regular expression does not match
IsLineTerminator(c) == c \in {"\n", "\r"}

\* s.substring(i - 1, i - 1 + Len(lit)) === lit, for a 1-based position i
MatchAt(s, i, lit) ==
  /\ i >= 1
  /\ i + Len(lit) - 1 <= Len(s)
  /\ SubSeq(s, i, i + Len(lit) - 1) = lit

StartsWith(s, p) == MatchAt(s, 1, p)

\* the 1-based position of the first occurrence of p in s, 0 when there is none
IndexOf(s, p) ==
  LET hits == {i \in 1..(Len(s) - Len(p) + 1) : MatchAt(s, i, p)}
  IN  IF hits = {} THEN 0 ELSE CHOOSE i \in hits : \A j \in hits : i <= j

\* String.prototype.includes
Includes(s, p) == Len(p) = 0 \/ IndexOf(s, p) # 0

\* the first position at or after i that holds no white space (Len(s) + 1 at the end)
RECURSIVE SkipSpace(_, _)
SkipSpace(s, i) ==
  IF i <= Len(s) /\ IsSpace(s[i]) THEN SkipSpace(s, i + 1) ELSE i

\* the last position at or before i that holds no white space (0 at the start)
RECURSIVE SkipSpaceBack(_, _)
SkipSpaceBack(s, i) ==
  IF i >= 1 /\ IsSpace(s[i]) THEN SkipSpaceBack(s, i - 1) ELSE i

Trim(s) ==
  LET a == SkipSpace(s, 1)
      b == SkipSpaceBack(s, Len(s))
  IN  IF a > b THEN EMPTY ELSE SubSeq(s, a, b)

RECURSIVE Repeat(_, _)
Repeat(s, n) == IF n <= 0 THEN EMPTY ELSE s \o Repeat(s, n - 1)

RECURSIVE Join(_, _)
Join(strs, sep) ==
  IF Len(strs) = 0 THEN EMPTY
  ELSE IF Len(strs) = 1 THEN strs[1]
  ELSE strs[1] \o sep \o Join(Tail(strs), sep)

\* s.split("\n"): the pieces between the line feeds, one more than there are
\* line feeds ("" splits into one empty line)
Split(s) ==
  LET feeds == {i \in 1..Len(s) : s[i] = "\n"}
      n == Cardinality(feeds)
      feed(k) == IF k = 0 THEN 0
                 ELSE IF k = n + 1 THEN Len(s) + 1
                 ELSE CHOOSE i \in feeds : Cardinality({j \in feeds : j < i}) = k - 1
  IN  [k \in 1..(n + 1) |-> SubSeq(s, feed(k - 1) + 1, feed(k) - 1)]

\* Array.prototype.find / findIndex with a startsWith test: 0 when no line matches
FindIndexStartsWith(lines, p) ==
  LET hits == {i \in 1..Len(lines) : StartsWith(lines[i], p)}
  IN  IF hits = {} THEN 0 ELSE CHOOSE i \in hits : \A j \in hits : i <= j

\* Array.prototype.indexOf: 0 when no line equals l
LineIndexOf(lines, l) ==
  LET hits == {i \in 1..Len(lines) : lines[i] = l}
  IN  IF hits = {} THEN 0 ELSE CHOOSE i \in hits : \A j \in hits : i <= j

(***************************************************************************)
(* Plan model                                                              *)
(***************************************************************************)
PlanItemStatus == {"pending", "in_progress", "completed", "cancelled"}

PlanItemPriority == {"high", "medium", "low"}

\* item.children ?? []
ChildrenOf(item) == IF "children" \in DOMAIN item THEN item.children ELSE <<>>

\* the truth value of plan.description: present and not the empty string
HasDescription(p) == "description" \in DOMAIN p /\ p.description # EMPTY

(***************************************************************************)
(* Serialize: Plan -> Markdown                                             *)
(***************************************************************************)
priorityLabel(p) ==
  CASE p = "high" -> <<"*", "*", "[">> \o HIGH \o <<"]", "*", "*">>
    [] p = "medium" -> <<"*", "*", "[">> \o MED \o <<"]", "*", "*">>
    [] p = "low" -> <<"*", "*", "[">> \o LOW \o <<"]", "*", "*">>

\* a serializer that also ticks the box of a cancelled item
statusCheckboxTicksCancelled(s) ==
  IF s \in {"completed", "cancelled"} THEN <<"[", "x", "]">> ELSE <<"[", " ", "]">>

statusCheckbox(s) == IF s = "completed" THEN <<"[", "x", "]">> ELSE <<"[", " ", "]">>

\* an item line that also carries the item's id
itemLineWithId(item, indent) ==
  Repeat(<<" ", " ">>, indent) \o <<"-", " ">> \o statusCheckbox(item.status) \o SP
    \o priorityLabel(item.priority) \o SP \o item.content \o SP \o item.id

\* the first line formatItem builds for an item, before its children's lines
itemLine(item, indent) ==
  LET prefix == Repeat(<<" ", " ">>, indent) \o <<"-", " ">>
      line == prefix \o statusCheckbox(item.status) \o SP
                \o priorityLabel(item.priority) \o SP \o item.content
  IN  IF item.status = "in_progress" THEN line \o SP \o IN_PROGRESS
      ELSE IF item.status = "cancelled" THEN line \o SP \o CANCELLED
      ELSE line

RECURSIVE formatItem(_, _)
formatItem(item, indent) ==
  LET line == itemLine(item, indent)
      kids == ChildrenOf(item)
      childLines == Join([k \in 1..Len(kids) |-> formatItem(kids[k], indent + 1)], NL)
  IN  IF childLines # EMPTY THEN line \o NL \o childLines ELSE line

planToMarkdown(p) ==
  LET head == <<PLAN_MARKER,
                TITLE_PREFIX \o p.title,
                EMPTY,
                META_PREFIX \o p.metadata.source \o UPDATED_SEP \o p.metadata.updatedAt,
                EMPTY>>
      overview == IF HasDescription(p)
                  THEN <<OVERVIEW, EMPTY, p.description, EMPTY>>
                  ELSE <<>>
      tasks == <<TASKS, EMPTY>>
      items == [k \in 1..Len(p.items) |-> formatItem(p.items[k], 0)]
      foot == <<EMPTY, RULE, FOOTER>>
  IN  Join(head \o overview \o tasks \o items \o foot, NL)

(***************************************************************************)
(* Deserialize: Markdown -> Plan                                           *)
(***************************************************************************)
\* The optional tail of ITEM_RE from position i to the end of the line:
\*   (?:\s+\*\(in progress\)\*)?(?:\s+~~cancelled~~)?$
\* AfterAnnotation is the position after \s+lit matched at i, 0 when it does not match.
AfterAnnotation(line, i, lit) ==
  LET j == SkipSpace(line, i)
  IN  IF j > i /\ MatchAt(line, j, lit) THEN j + Len(lit) ELSE 0

TailMatches(line, i) ==
  LET end == Len(line) + 1
      a == AfterAnnotation(line, i, IN_PROGRESS)
  IN  \/ i = end
      \/ a = end
      \/ a # 0 /\ AfterAnnotation(line, a, CANCELLED) = end
      \/ AfterAnnotation(line, i, CANCELLED) = end

\* \s+(.+?) followed by the tail, from position p (the position after "]**").
\* \s+ is greedy and (.+?) is lazy: of the splits that let the rest match, the
\* engine returns the one with the longest white space and then the shortest
\* content.  The result is <<first, last>> of group 4, <<0, 0>> when nothing matches.
ContentSpan(line, p) ==
  LET W == SkipSpace(line, p) - p
      NoTerminator(a, b) == \A k \in a..b : ~IsLineTerminator(line[k])
      Ends(w) == {e \in (p + w)..Len(line) :
                    NoTerminator(p + w, e) /\ TailMatches(line, e + 1)}
      ws == {w \in 1..W : Ends(w) # {}}
  IN  IF ws = {} THEN <<0, 0>>
      ELSE LET w == CHOOSE x \in ws : \A y \in ws : y <= x
               e == CHOOSE x \in Ends(w) : \A y \in Ends(w) : x <= y
           IN  <<p + w, e>>

\* line.match(ITEM_RE):
\*   ^(\s*)- \[([ xX])\]\s+\*\*\[(HIGH|MED|LOW)\]\*\*\s+(.+?)<tail>$
\* [ok |-> FALSE] when the line does not match, else the four groups.
NoMatch == [ok |-> FALSE]

ITEM_RE(line) ==
  LET d == SkipSpace(line, 1)                  \* "- [" starts here, group 1 is before it
      c == d + 3                               \* the checkbox character
      s == c + 2                               \* \s+ after "]"
      b == SkipSpace(line, s)                  \* "**[" starts here
      t == b + 3                               \* the priority tag
      tag == IF MatchAt(line, t, HIGH) THEN HIGH
             ELSE IF MatchAt(line, t, MED) THEN MED
             ELSE IF MatchAt(line, t, LOW) THEN LOW
             ELSE EMPTY
      r == t + Len(tag) + 3                    \* the position after "]**"
  IN  IF /\ MatchAt(line, d, <<"-", " ", "[">>)
         /\ c <= Len(line) /\ line[c] \in {" ", "x", "X"}
         /\ MatchAt(line, c + 1, <<"]">>)
         /\ b > s
         /\ MatchAt(line, b, <<"*", "*", "[">>)
         /\ tag # EMPTY
         /\ MatchAt(line, t + Len(tag), <<"]", "*", "*">>)
         /\ ContentSpan(line, r) # <<0, 0>>
      THEN LET span == ContentSpan(line, r)
           IN  [ok |-> TRUE,
                g1 |-> SubSeq(line, 1, d - 1),
                g2 |-> <<line[c]>>,
                g3 |-> tag,
                g4 |-> SubSeq(line, span[1], span[2])]
      ELSE NoMatch

parsePriority(raw) ==
  CASE raw = HIGH -> "high"
    [] raw = MED -> "medium"
    [] raw = LOW -> "low"
    [] OTHER -> "medium"

\* String.prototype.toLowerCase on the characters a checkbox can hold
ToLowerCase(s) == [k \in 1..Len(s) |-> IF s[k] = "X" THEN "x" ELSE s[k]]

\* a status that reads the box before the annotations
parseStatusBoxFirst(checkbox, rest) ==
  IF ToLowerCase(Trim(checkbox)) = <<"x">> THEN "completed"
  ELSE IF Includes(rest, CANCELLED) THEN "cancelled"
  ELSE IF Includes(rest, IN_PROGRESS) THEN "in_progress"
  ELSE "pending"

parseStatus(checkbox, rest) ==
  IF Includes(rest, CANCELLED) THEN "cancelled"
  ELSE IF Includes(rest, IN_PROGRESS) THEN "in_progress"
  ELSE IF ToLowerCase(Trim(checkbox)) = <<"x">> THEN "completed"
  ELSE "pending"

\* crypto.randomUUID(): the k-th identifier drawn, different from every other
randomUUID(k) == <<"u", "u", "i", "d">> \o [i \in 1..k |-> "'"]

\* The loop over the lines: one ParsedLine per line that matches ITEM_RE.
\* indent is match[1].length / 2 in the source; the model keeps match[1].length,
\* twice the indent, so that an odd number of spaces needs no fraction.
RECURSIVE parseLines(_, _)
parseLines(lines, n) ==
  IF Len(lines) = 0 THEN <<>>
  ELSE LET match == ITEM_RE(lines[1])
       IN  IF ~match.ok THEN parseLines(Tail(lines), n)
           ELSE <<[indent |-> Len(match.g1),
                   item |-> [id |-> randomUUID(n + 1),
                             content |-> Trim(match.g4),
                             status |-> parseStatus(match.g2, lines[1]),
                             priority |-> parsePriority(match.g3)]]>>
                \o parseLines(Tail(lines), n + 1)

\* Build tree from flat indented list.  A frame of the stack owns the children
\* array of one item of the tree under construction (or the root array); the model
\* names that array by the path of child positions that leads to its owner.
RECURSIVE PushAt(_, _, _)
PushAt(items, path, item) ==
  IF Len(path) = 0 THEN Append(items, item)
  ELSE [items EXCEPT ![path[1]].children = PushAt(@, Tail(path), item)]

RECURSIVE ArrayAt(_, _)
ArrayAt(items, path) ==
  IF Len(path) = 0 THEN items ELSE ArrayAt(items[path[1]].children, Tail(path))

\* a loop that leaves a frame of the same indent on the stack
RECURSIVE PopFramesDeeperOnly(_, _)
PopFramesDeeperOnly(stack, indent) ==
  IF Len(stack) > 1 /\ stack[Len(stack)].indent > indent
  THEN PopFramesDeeperOnly(SubSeq(stack, 1, Len(stack) - 1), indent)
  ELSE stack

\* while (stack.length > 1 && stack[stack.length - 1].indent >= indent) stack.pop()
RECURSIVE PopFrames(_, _)
PopFrames(stack, indent) ==
  IF Len(stack) > 1 /\ stack[Len(stack)].indent >= indent
  THEN PopFrames(SubSeq(stack, 1, Len(stack) - 1), indent)
  ELSE stack

\* a clean-up that strips the empty arrays of the top-level items only
cleanTopLevelOnly(items) ==
  [k \in 1..Len(items) |->
     LET it == items[k]
     IN  IF "children" \in DOMAIN it /\ Len(it.children) = 0
         THEN [f \in DOMAIN it \ {"children"} |-> it[f]]
         ELSE it]

\* Clean up empty children arrays
RECURSIVE cleanChildren(_)
cleanChildren(items) ==
  [k \in 1..Len(items) |->
     LET it == items[k]
     IN  IF "children" \in DOMAIN it /\ Len(it.children) = 0
         THEN [f \in DOMAIN it \ {"children"} |-> it[f]]
         ELSE IF "children" \in DOMAIN it
         THEN [it EXCEPT !.children = cleanChildren(@)]
         ELSE it]

RECURSIVE buildLoop(_, _, _)
buildLoop(parsed, root, stack) ==
  IF Len(parsed) = 0 THEN root
  ELSE LET indent == parsed[1].indent
           item == parsed[1].item
           popped == PopFrames(stack, indent)
           parent == popped[Len(popped)]
           pos == Len(ArrayAt(root, parent.path)) + 1
           withChildren == [f \in DOMAIN item \cup {"children"} |->
                              IF f = "children" THEN <<>> ELSE item[f]]
       IN  buildLoop(Tail(parsed),
                     PushAt(root, parent.path, withChildren),
                     Append(popped, [indent |-> indent,
                                     path |-> Append(parent.path, pos)]))

\* the root frame has indent -1, kept here in the unit of parseLines (-2)
buildTree(parsed) ==
  cleanChildren(buildLoop(parsed, <<>>, <<[indent |-> -2, path |-> <<>>]>>))

\* metaLine.match(/Shared from ([^|]+)/): group 1 of the leftmost match, or no match
SourceMatch(line) ==
  LET hits == {i \in 1..Len(line) :
                 /\ MatchAt(line, i, SHARED_FROM)
                 /\ i + Len(SHARED_FROM) <= Len(line)
                 /\ line[i + Len(SHARED_FROM)] # "|"}
  IN  IF hits = {} THEN NoMatch
      ELSE LET i == CHOOSE x \in hits : \A y \in hits : x <= y
               a == i + Len(SHARED_FROM)
               bars == {k \in a..Len(line) : line[k] = "|"}
               b == IF bars = {} THEN Len(line)
                    ELSE (CHOOSE x \in bars : \A y \in bars : x <= y) - 1
           IN  [ok |-> TRUE, g1 |-> SubSeq(line, a, b)]

\* /Updated: (.*)/ in the place of /Updated: (.+)/: an empty date is a match
DateMatchEmpty(line) ==
  LET i == IndexOf(line, UPDATED)
  IN  IF i = 0 THEN NoMatch
      ELSE LET a == i + Len(UPDATED)
               stops == {k \in a..Len(line) : IsLineTerminator(line[k])}
               b == IF stops = {} THEN Len(line)
                    ELSE (CHOOSE x \in stops : \A y \in stops : x <= y) - 1
           IN  [ok |-> TRUE, g1 |-> SubSeq(line, a, b)]

\* metaLine.match(/Updated: (.+)/): group 1 of the leftmost match, or no match
DateMatch(line) ==
  LET hits == {i \in 1..Len(line) :
                 /\ MatchAt(line, i, UPDATED)
                 /\ i + Len(UPDATED) <= Len(line)
                 /\ ~IsLineTerminator(line[i + Len(UPDATED)])}
  IN  IF hits = {} THEN NoMatch
      ELSE LET i == CHOOSE x \in hits : \A y \in hits : x <= y
               a == i + Len(UPDATED)
               stops == {k \in a..Len(line) : IsLineTerminator(line[k])}
               b == IF stops = {} THEN Len(line)
                    ELSE (CHOOSE x \in stops : \A y \in stops : x <= y) - 1
           IN  [ok |-> TRUE, g1 |-> SubSeq(line, a, b)]

\* s.replaceAll(p, ""): every occurrence of p removed
RECURSIVE ReplaceEvery(_, _)
ReplaceEvery(s, p) ==
  LET i == IndexOf(s, p)
  IN  IF i = 0 \/ Len(p) = 0 THEN s
      ELSE SubSeq(s, 1, i - 1) \o ReplaceEvery(SubSeq(s, i + Len(p), Len(s)), p)

\* s.replace(p, ""): the first occurrence of p removed
ReplaceFirst(s, p) ==
  LET i == IndexOf(s, p)
  IN  IF i = 0 THEN s ELSE SubSeq(s, 1, i - 1) \o SubSeq(s, i + Len(p), Len(s))

\* .filter((l) => l.trim().length > 0 && l.trim() !== "## Overview")
RECURSIVE DescLines(_)
DescLines(lines) ==
  IF Len(lines) = 0 THEN <<>>
  ELSE IF Len(Trim(lines[1])) > 0 /\ Trim(lines[1]) # OVERVIEW
  THEN <<lines[1]>> \o DescLines(Tail(lines))
  ELSE DescLines(Tail(lines))

Null == [null |-> TRUE]

IsNull(r) == "null" \in DOMAIN r

\* now is new Date().toISOString() at the time of the call
markdownToPlan(text, now) ==
  IF ~Includes(text, PLAN_MARKER) THEN Null
  ELSE
    LET lines == Split(text)
        titleIdx == FindIndexStartsWith(lines, TITLE_PREFIX)
        title == IF titleIdx # 0
                 THEN Trim(ReplaceFirst(lines[titleIdx], TITLE_PREFIX))
                 ELSE UNTITLED
        metaFound == FindIndexStartsWith(lines, META_PREFIX)
        sourceMatch == IF metaFound # 0 THEN SourceMatch(lines[metaFound]) ELSE NoMatch
        dateMatch == IF metaFound # 0 THEN DateMatch(lines[metaFound]) ELSE NoMatch
        source == IF sourceMatch.ok THEN Trim(sourceMatch.g1) ELSE UNKNOWN
        updatedAt == IF dateMatch.ok THEN Trim(dateMatch.g1) ELSE now
        \* lines.indexOf(metaLine ?? ""), -1 and the indices shifted to 1-based
        metaIdx == IF metaFound # 0 THEN LineIndexOf(lines, lines[metaFound])
                   ELSE LineIndexOf(lines, EMPTY)
        tasksIdx == FindIndexStartsWith(lines, TASKS)
        descLines == IF metaIdx >= 1 /\ tasksIdx > metaIdx + 1
                     THEN DescLines(SubSeq(lines, metaIdx + 1, tasksIdx - 1))
                     ELSE <<>>
        items == buildTree(parseLines(lines, 0))
        base == [title |-> title,
                 items |-> items,
                 metadata |-> [source |-> source,
                               createdAt |-> updatedAt,
                               updatedAt |-> updatedAt]]
    IN  IF Len(descLines) > 0
        THEN [f \in DOMAIN base \cup {"description"} |->
                IF f = "description" THEN Trim(Join(descLines, NL)) ELSE base[f]]
        ELSE base

\* a predicate that looks for the sentinel at the start of the message only
isPlanMessageAtStart(content) == StartsWith(content, PLAN_MARKER)

isPlanMessage(content) == Includes(content, PLAN_MARKER)

(***************************************************************************)
(* Inputs.  A string is a concatenation of at most so many words; the      *)
(* words are the fragments the grammar of the document reacts to, next to  *)
(* plain and markdown-special text.                                        *)
(***************************************************************************)
MaxContentWords == 2

MaxTitleWords == 2

MaxDescWords == 3

MaxItems == 3

MaxTextLines == 3

RECURSIVE Strs(_, _)
Strs(words, n) ==
  IF n = 0 THEN {EMPTY}
  ELSE LET shorter == Strs(words, n - 1)
       IN  shorter \cup {s \o w : s \in shorter, w \in words}

ITEM_LINE_B ==
  <<"-", " ", "[", "x", "]", " ", "*", "*", "[", "L", "O", "W", "]", "*", "*", " ", "b">>

SPECIALS == <<"\"", "<", ">", "*", "~", "[", "]">>

ContentWords ==
  {<<"a">>, SP, NL, SPECIALS, SP \o CANCELLED, SP \o IN_PROGRESS, ITEM_LINE_B}

TitleWords == {<<"T">>, SP, NL, <<":", "&", "(", ")">>, TITLE_PREFIX}

DescWords ==
  {<<"d">>, SP, NL, NL \o NL, <<"#", "#", "#", " ", "H">>, OVERVIEW, TASKS, ITEM_LINE_B}

Contents == Strs(ContentWords, MaxContentWords)

Titles == Strs(TitleWords, MaxTitleWords)

Descriptions == Strs(DescWords, MaxDescWords)

Metadata ==
  [source |-> <<"a", "g", "e", "n", "t">>,
   createdAt |-> <<"2", "0", "2", "5">>,
   updatedAt |-> <<"2", "0", "2", "6">>]

Item(content, status, priority) ==
  [id |-> <<"i", "d">>, content |-> content, status |-> status, priority |-> priority]

WithChildren(item, kids) ==
  [f \in DOMAIN item \cup {"children"} |-> IF f = "children" THEN kids ELSE item[f]]

PlainItem == Item(<<"a">>, "pending", "medium")

\* the statuses, each with one priority, for the items of a forest
ForestKinds ==
  {<<"pending", "high">>, <<"in_progress", "medium">>,
   <<"completed", "low">>, <<"cancelled", "medium">>}

\* the forests of exactly n items, and the trees of exactly n items
RECURSIVE ForestsOf(_)
RECURSIVE TreesOf(_)
ForestsOf(n) ==
  IF n = 0 THEN {<<>>}
  ELSE UNION {{<<t>> \o f : t \in TreesOf(k), f \in ForestsOf(n - k)} : k \in 1..n}

TreesOf(n) ==
  LET nodes == {Item(<<"a">>, k[1], k[2]) : k \in ForestKinds}
  IN  IF n = 1 THEN nodes
      ELSE {WithChildren(nd, f) : nd \in nodes, f \in ForestsOf(n - 1)}

\* the same forest with an explicit empty children array on every leaf
RECURSIVE ExplicitLeaves(_)
ExplicitLeaves(items) ==
  [k \in 1..Len(items) |->
     WithChildren(items[k], ExplicitLeaves(ChildrenOf(items[k])))]

Forests ==
  LET plain == UNION {ForestsOf(n) : n \in 0..MaxItems}
  IN  plain \cup {ExplicitLeaves(f) : f \in plain}

BasePlan(title, items) == [title |-> title, items |-> items, metadata |-> Metadata]

WithDescription(p, d) ==
  [f \in DOMAIN p \cup {"description"} |-> IF f = "description" THEN d ELSE p[f]]

\* one item of any content, status and priority
PlansOneItem ==
  {WithDescription(BasePlan(<<"T">>, <<Item(c, s, p)>>), <<"d">>) :
     c \in Contents, s \in PlanItemStatus, p \in PlanItemPriority}

\* any forest of plain items
PlansForest ==
  {BasePlan(<<"T">>, f) : f \in Forests}

\* any title
PlansTitle ==
  {BasePlan(t, i) : t \in Titles, i \in {<<>>, <<PlainItem>>}}

\* any description
PlansDescription ==
  {WithDescription(BasePlan(<<"T">>, i), d) :
     d \in Descriptions, i \in {<<>>, <<PlainItem>>}}

\* title, description and content varied together
PlansMixed ==
  {WithDescription(BasePlan(t, <<Item(c, s, "low")>>), d) :
     t \in Strs(TitleWords, 1), d \in Strs(DescWords, 1),
     c \in Strs(ContentWords, 1), s \in {"pending", "in_progress"}}

MaxMetaWords == 2

MetaWords == {<<"s">>, SP, <<"|">>, NL, UPDATED}

Labels == Strs(MetaWords, MaxMetaWords)

WithMetadata(p, source, updatedAt) ==
  [p EXCEPT !.metadata.source = source, !.metadata.updatedAt = updatedAt]

\* any source label, and any updatedAt string
PlansMetadata ==
  LET p == BasePlan(<<"T">>, <<PlainItem>>)
  IN  {WithMetadata(p, s, Metadata.updatedAt) : s \in Labels}
        \cup {WithMetadata(p, Metadata.source, u) : u \in Labels}

\* the sentinel as the text of a title, a description, a content or a source
PlansMarker ==
  {WithMetadata(WithDescription(BasePlan(t, <<Item(c, "pending", "low")>>), d),
                s, Metadata.updatedAt) :
     t \in {<<"T">>, PLAN_MARKER}, d \in {<<"d">>, PLAN_MARKER},
     c \in {<<"a">>, PLAN_MARKER}, s \in {Metadata.source, PLAN_MARKER}}

\* the properties of a Plan that the document does not show: the items' ids,
\* metadata.createdAt and the optional metadata.sessionId
Ids == {<<"#", "1">>, <<"#", "2">>}

CreatedAts == {<<"2", "0", "2", "4">>, <<"2", "0", "2", "5">>}

SessionIds == {<<"s", "e", "s", "s", "1">>, <<"s", "e", "s", "s", "2">>}

WithId(item, id) == [item EXCEPT !.id = id]

PlansIdentity ==
  LET items(i, j) == <<WithChildren(WithId(PlainItem, i), <<WithId(PlainItem, j)>>)>>
      metas == {[Metadata EXCEPT !.createdAt = c] : c \in CreatedAts}
      withSession(m, x) ==
        [f \in DOMAIN m \cup {"sessionId"} |-> IF f = "sessionId" THEN x ELSE m[f]]
  IN  {[title |-> <<"T">>, items |-> items(i, j), metadata |-> m] :
         i \in Ids, j \in Ids,
         m \in metas \cup {withSession(n, x) : n \in metas, x \in SessionIds}}

Plans ==
  PlansOneItem \cup PlansForest \cup PlansTitle \cup PlansDescription \cup PlansMixed
    \cup PlansMetadata \cup PlansMarker \cup PlansIdentity

\* the lines of a chat message that is fetched rather than serialized here
TextLines ==
  {PLAN_MARKER,
   <<"x">> \o PLAN_MARKER \o <<"y">>,
   SubSeq(PLAN_MARKER, 1, Len(PLAN_MARKER) - 1),
   EMPTY,
   <<"h", "i">>,
   TITLE_PREFIX \o <<"T">>,
   TASKS,
   <<"-", " ", "[", " ", "]", " ", "*", "*", "[", "H", "I", "G", "H", "]", "*", "*", " ", "a">>,
   <<" ", " ">> \o ITEM_LINE_B}

Texts == {Join(ls, NL) : ls \in UNION {[1..n -> TextLines] : n \in 0..MaxTextLines}}

\* Documents as collaborators leave them after editing by hand: the sentinel line,
\* then a title line, a provenance line, a blank line, a body, the tasks heading
\* and item lines, each in some form or missing.
DocTitles == {<<>>, <<TITLE_PREFIX \o <<"T">>>>, <<SP \o TITLE_PREFIX \o <<"T">>>>}

DocMetas ==
  {<<>>,
   <<META_PREFIX \o <<"s">> \o UPDATED_SEP \o <<"u">>>>,
   <<META_PREFIX \o <<"s">>>>,
   <<META_PREFIX \o <<"s">> \o UPDATED_SEP>>,
   <<META_PREFIX \o <<"|", " ">> \o UPDATED \o <<"u">>>>,
   <<META_PREFIX>>}

DocBlanks == {<<>>, <<EMPTY>>}

DocBodies == {<<>>, <<<<"d">>>>, <<OVERVIEW, EMPTY, <<"d">>, <<"e">>>>}

DocTasks == {<<>>, <<TASKS>>}

DocItems ==
  {<<>>,
   <<<<"-", " ", "[", "X", "]", " ", "*", "*", "[", "M", "E", "D", "]", "*", "*", " ", "a">>
       \o SP \o CANCELLED>>,
   <<<<"-", " ", "[", "x", "]", " ", "*", "*", "[", "H", "I", "G", "H", "]", "*", "*", " ", "a">>
       \o SP \o IN_PROGRESS \o SP \o CANCELLED,
     <<"-", " ", "[", "X", "]", " ", "*", "*", "[", "L", "O", "W", "]", "*", "*", " ", "b">>,
     <<"-", " ", "[", " ", "]", " ", "*", "*", "[", "B", "A", "D", "]", "*", "*", " ", "c">>>>}

Documents ==
  {Join(<<PLAN_MARKER>> \o t \o m \o b \o d \o h \o i, NL) :
     t \in DocTitles, m \in DocMetas, b \in DocBlanks, d \in DocBodies,
     h \in DocTasks, i \in DocItems}
    \cup {Join(<<PLAN_MARKER>> \o h \o d \o m, NL) :
            h \in DocTasks, d \in DocBodies, m \in DocMetas}

\* Task lists indented by hand: after the sentinel line, item lines with any
\* number of leading spaces, each with a content of its own.
MaxOutline == 4

Indents == {0, 1, 2, 4}

LETTERS == <<"a", "b", "c", "d", "e", "f">>

OutlineLine(spaces, k) ==
  Repeat(SP, spaces) \o <<"-", " ">> \o statusCheckbox("pending") \o SP
    \o priorityLabel("medium") \o SP \o <<LETTERS[k]>>

Outlines ==
  {Join(<<PLAN_MARKER>> \o [k \in 1..Len(ds) |-> OutlineLine(ds[k], k)], NL) :
     ds \in UNION {[1..n -> Indents] : n \in 1..MaxOutline}}

\* the values new Date().toISOString() can return during a call
Nows == {<<"n", "o", "w", "1">>, <<"n", "o", "w", "2">>}

(***************************************************************************)
(* The CoChat backend, the wall clock and the tracking store.              *)
(*                                                                         *)
(* A chat id is a number: 0 is a chat that somebody else created, the      *)
(* chats that plans_share creates are numbered from 1 in the order of      *)
(* their creation.  The messages of a chat are kept in the order of their  *)
(* timestamps, the order extractMessages returns them in; the id of a      *)
(* message is its number in the chat.  updated_at is the modification      *)
(* stamp the backend keeps for a chat; it is positive.                     *)
(***************************************************************************)
MaxShares == 2

MaxChanges == 1

MaxClock == 3

MaxPolls == 1

MaxEdits == 2

MaxCalls == 3

MaxDeletes == 1

ChatIds == 0..MaxShares

DIGITS == <<"0", "1", "2", "3", "4", "5", "6", "7", "8", "9">>

\* new Date(t).toISOString(), for the milliseconds the clock of the model shows
toISOString(t) == <<"T", "0", "0", ":", "0", "0", ".", "0", "0", DIGITS[t + 1], "Z">>

\* new Date(iso).getTime()
getTime(iso) == CHOOSE t \in 0..9 : DIGITS[t + 1] = iso[Len(iso) - 1]

CODING_AGENT == <<"c", "o", "d", "i", "n", "g", "-", "a", "g", "e", "n", "t">>

\* client.extractMessages(chat)
extractMessages(chat) == chat.messages

\* a find that takes the first message of the chat for the plan message
FindFirstMessage(messages) == IF Len(messages) = 0 THEN 0 ELSE 1

\* messages.find((m) => isPlanMessage(m.content)): its position, 0 when there is none
FindPlanMessage(messages) ==
  LET hits == {k \in 1..Len(messages) : isPlanMessage(messages[k].content)}
  IN  IF hits = {} THEN 0 ELSE CHOOSE k \in hits : \A j \in hits : k <= j

Undefined == [undefined |-> TRUE]

IsUndefined(x) == "undefined" \in DOMAIN x

\* loadStore().plans[chatId]
getTrackedPlan(chatId) ==
  LET hits == {k \in 1..Len(store) : store[k].chatId = chatId}
  IN  IF hits = {} THEN Undefined ELSE store[CHOOSE k \in hits : TRUE]

\* entries.sort((a, b) => getTime(b.updatedAt) - getTime(a.updatedAt))[0]: the sort
\* is stable, so of the entries with the latest updatedAt the first one in the
\* order of the keys
getMostRecentPlan ==
  IF Len(store) = 0 THEN Undefined
  ELSE LET latest == {k \in 1..Len(store) :
                        \A j \in 1..Len(store) :
                          getTime(store[k].updatedAt) >= getTime(store[j].updatedAt)}
       IN  store[CHOOSE k \in latest : \A j \in latest : k <= j]

\* store.plans[plan.chatId] = plan: a new key comes last, a known key keeps its place
trackPlan(tracked) ==
  LET hits == {k \in 1..Len(store) : store[k].chatId = tracked.chatId}
  IN  IF hits = {} THEN Append(store, tracked)
      ELSE [store EXCEPT ![CHOOSE k \in hits : TRUE] = tracked]

\* what a collaborator writes in a chat: a comment, and a comment that quotes
\* the first line of the plan document
Replies ==
  {<<"o", "k">>, <<"r", "e", ":", " ">> \o PLAN_MARKER}

\* what is left of a message that a collaborator rewrote
REWRITTEN == <<"n", "o", "t", "e", "s">>

\* the arguments of plans_share and of plans_update
ShareItems == {<<PlainItem>>}

UpdateItems ==
  {<<WithChildren(Item(<<"a">>, "completed", "high"),
                  <<Item(<<"b">>, "in_progress", "low")>>)>>}

\* resource URIs: cochat://plan/<chat id>, and one that is no plan URI
planUri(chatId) == <<"cochat://plan/", chatId>>

OTHER_URI == <<"cochat://folder/", 0>>

Uris == {planUri(c) : c \in ChatIds} \cup {OTHER_URI}

\* the URIs a client subscribes to: the resources listed for the tracked plans,
\* and one that is no plan URI
SubscribeUris == {planUri(c) : c \in 1..MaxShares} \cup {OTHER_URI}

\* uri.match(/^cochat:\/\/plan\/(.+)$/): the chat id, or null
chatIdFromUri(uri) == IF uri[1] = "cochat://plan/" THEN [chatId |-> uri[2]] ELSE Null

NoReply == [handler |-> "none"]

(***************************************************************************)
(* The codec as a state machine: a plan is serialized (plans_share,        *)
(* plans_update) or a message is fetched, and the document is parsed       *)
(* (plans_pull).                                                           *)
(***************************************************************************)
Init ==
  /\ plan = BasePlan(EMPTY, <<>>)
  /\ md = EMPTY
  /\ result = Null
  /\ pc = "idle"
  /\ chats = (0 :> [updated_at |-> 1, messages |-> <<>>])
  /\ store = <<>>
  /\ clock = 0
  /\ subscriptions = <<>>
  /\ polls = <<>>
  /\ observed = <<>>
  /\ reply = NoReply
  /\ folders = <<>>
  /\ projects = <<>>
  /\ calls = <<>>
  /\ timers = {}
  /\ writers = <<>>

Serialize ==
  /\ pc = "idle"
  /\ \E p \in Plans :
       /\ plan' = p
       /\ md' = planToMarkdown(p)
  /\ pc' = "serialized"
  /\ UNCHANGED result
  /\ UNCHANGED serverVars

Receive ==
  /\ pc = "idle"
  /\ \E t \in Texts \cup Documents \cup Outlines : md' = t
  /\ pc' = "received"
  /\ UNCHANGED <<plan, result>>
  /\ UNCHANGED serverVars

Parse ==
  /\ pc \in {"serialized", "received"}
  /\ \E now \in Nows : result' = markdownToPlan(md, now)
  /\ pc' = IF pc = "serialized" THEN "roundtrip" ELSE "parsed"
  /\ UNCHANGED <<plan, md>>
  /\ UNCHANGED serverVars

Next == Serialize \/ Receive \/ Parse

Spec == Init /\ [][Next]_vars

TypeOK ==
  /\ pc \in {"idle", "serialized", "received", "roundtrip", "parsed"}
  /\ pc = "roundtrip" => ~IsNull(result)

(***************************************************************************)
(* The plan tools.  A call reads the clock at most once, one millisecond   *)
(* at least after the call before it; reply records what the handler       *)
(* returned, the messages it fetched and the remote calls it made.  The    *)
(* text plans_pull returns is built from                                   *)
(* markdownToPlan(reply.planMessage.content) and reply.feedback.           *)
(***************************************************************************)
NewChatId == Cardinality(DOMAIN chats)

\* the remote calls of plansShare, in the order of its awaits
ShareCalls(input) ==
  <<"resolveCurrentProjectFolder", "getDefaultModel", "createChat",
    "moveChatToFolder", "enableCollaboration", "setLinkAccess">>
  \o (IF "invite_emails" \in DOMAIN input /\ Len(input.invite_emails) > 0
      THEN <<"inviteUsers">>
      ELSE <<>>)

\* a plansShare that tracks the plan although a remote call failed
TracksAlways(failed) == TRUE

\* trackPlan is reached when no remote call threw
Tracks(failed) == failed = 0

\* plansShare when its remote call number failed throws (0: none does)
ShareOutcome(input, failed) ==
  LET now == toISOString(clock + 1)
      shared == [title |-> input.title,
                 items |-> input.items,
                 metadata |-> [source |-> CODING_AGENT,
                               createdAt |-> now,
                               updatedAt |-> now]]
      markdown == planToMarkdown(shared)
      made == IF failed = 0 THEN ShareCalls(input)
              ELSE SubSeq(ShareCalls(input), 1, failed)
      created == \E n \in 1..Len(made) : made[n] = "createChat" /\ n # failed
      chatId == NewChatId
      messageId == 1
  IN  /\ chats' = IF created
                  THEN chats @@
                       (chatId :> [updated_at |-> 1,
                                   messages |-> <<[id |-> messageId,
                                                   content |-> markdown]>>])
                  ELSE chats
      /\ store' = IF Tracks(failed)
                  THEN trackPlan([chatId |-> chatId,
                                  planMessageId |-> messageId,
                                  title |-> shared.title,
                                  createdAt |-> now,
                                  updatedAt |-> now])
                  ELSE store
      /\ reply' = IF failed = 0
                  THEN [handler |-> "plans_share", text |-> "shared successfully",
                        input |-> input, target |-> chatId, remote |-> made]
                  ELSE [handler |-> "plans_share", text |-> "CoChat API error",
                        input |-> input, remote |-> made]
      /\ clock' = clock + 1

\* the remote calls succeed and nobody is invited
PlansShare ==
  /\ NewChatId <= MaxShares
  /\ clock < MaxClock
  /\ \E items \in ShareItems : ShareOutcome([title |-> <<"T">>, items |-> items], 0)
  /\ UNCHANGED <<subscriptions, timers, polls, observed>>
  /\ UNCHANGED <<codecVars, projectVars, writers>>

\* the invite_emails of plans_share: none, an empty list, one address
ShareInputs ==
  LET base(items) == [title |-> <<"T">>, items |-> items]
  IN  {base(items) : items \in ShareItems}
      \cup {base(items) @@ [invite_emails |-> emails] :
              items \in ShareItems, emails \in {<<>>, <<"a@b.c">>}}

\* any remote call may throw
PlansShareOrFail ==
  /\ NewChatId <= MaxShares
  /\ clock < MaxClock
  /\ \E input \in ShareInputs :
       \E failed \in 0..Len(ShareCalls(input)) : ShareOutcome(input, failed)
  /\ UNCHANGED <<subscriptions, timers, polls, observed>>
  /\ UNCHANGED <<codecVars, projectVars, writers>>

PlansUpdate ==
  /\ \E chat_id \in ChatIds, items \in UpdateItems :
       LET tracked == getTrackedPlan(chat_id)
       IN  IF IsUndefined(tracked)
           THEN /\ reply' = [handler |-> "plans_update", text |-> "is not tracked locally",
                             target |-> chat_id, remote |-> <<>>]
                /\ UNCHANGED <<chats, store, clock>>
           ELSE LET messages == extractMessages(chats[chat_id])
                    k == FindPlanMessage(messages)
                IN  IF k = 0
                    THEN /\ reply' = [handler |-> "plans_update",
                                      text |-> "does not contain a plan message",
                                      target |-> chat_id, remote |-> <<"getChat">>]
                         /\ UNCHANGED <<chats, store, clock>>
                    ELSE LET now == toISOString(clock + 1)
                             updated == [title |-> tracked.title,
                                         items |-> items,
                                         metadata |-> [source |-> CODING_AGENT,
                                                       createdAt |-> tracked.createdAt,
                                                       updatedAt |-> now]]
                             markdown == planToMarkdown(updated)
                             m == tracked.planMessageId
                         IN  /\ clock < MaxClock
                             /\ chats' = [chats EXCEPT
                                            ![chat_id].messages[m].content = markdown,
                                            ![chat_id].updated_at = @ + 1]
                             /\ store' = trackPlan([tracked EXCEPT !.updatedAt = now])
                             /\ clock' = clock + 1
                             /\ reply' = [handler |-> "plans_update",
                                          text |-> "updated successfully",
                                          target |-> chat_id,
                                          remote |-> <<"getChat", "updateMessage">>]
  /\ UNCHANGED <<subscriptions, timers, polls, observed>>
  /\ UNCHANGED <<codecVars, projectVars, writers>>

\* the arguments of plans_pull: a chat_id, or none
PlansPullInputs == {[chat_id |-> c] : c \in ChatIds} \cup {<<>>}

\* messages.filter((m) => m.id !== planMessage.id)
FeedbackOfPull(messages, planMessage) ==
  SelectSeq(messages, LAMBDA m : m.id # planMessage.id)

PlansPull ==
  /\ \E input \in PlansPullInputs :
       LET given == "chat_id" \in DOMAIN input
           tracked == IF given THEN getTrackedPlan(input.chat_id) ELSE getMostRecentPlan
           early(text, target, messages, remote) ==
             /\ reply' = [handler |-> "plans_pull", given |-> given, text |-> text,
                          target |-> target, messages |-> messages, remote |-> remote]
             /\ UNCHANGED <<store, clock>>
       IN  IF IsUndefined(tracked) /\ ~given
           THEN early("No shared plans found", Null, <<>>, <<>>)
           ELSE LET targetChatId == IF given THEN input.chat_id ELSE tracked.chatId
                IN  IF targetChatId \notin DOMAIN chats
                    THEN early("CoChat API error", targetChatId, <<>>, <<"getChat">>)
                    ELSE LET messages == extractMessages(chats[targetChatId])
                             k == FindPlanMessage(messages)
                         IN  IF Len(messages) = 0
                             THEN early("has no messages", targetChatId, messages,
                                        <<"getChat">>)
                             ELSE IF k = 0
                             THEN early("does not contain a plan created by this tool",
                                        targetChatId, messages, <<"getChat">>)
                             ELSE LET now == toISOString(clock + 1)
                                  IN  /\ clock < MaxClock
                                      /\ clock' = clock + 1
                                      /\ store' = IF IsUndefined(tracked) THEN store
                                                  ELSE trackPlan([tracked EXCEPT
                                                                    !.updatedAt = now])
                                      /\ reply' =
                                           [handler |-> "plans_pull",
                                            given |-> given,
                                            text |-> "plan and feedback",
                                            target |-> targetChatId,
                                            messages |-> messages,
                                            planMessage |-> messages[k],
                                            now |-> now,
                                            feedback |-> FeedbackOfPull(messages, messages[k]),
                                            remote |-> <<"getChat">>]
  /\ UNCHANGED <<chats, subscriptions, timers, polls, observed>>
  /\ UNCHANGED <<codecVars, projectVars, writers>>

\* the label plansPull gives a top-level item
statusIcon(status) ==
  IF status = "completed" THEN "[DONE]"
  ELSE IF status = "in_progress" THEN "[IN PROGRESS]"
  ELSE IF status = "cancelled" THEN "[CANCELLED]"
  ELSE "[PENDING]"

\* the label plansPull gives a child
childIcon(status) == IF status = "completed" THEN "[DONE]" ELSE "[PENDING]"

\* the lines plansPull writes under "### Current Tasks": a line is
\* `${indent}- ${icon} (${priority}) ${content}`
RECURSIVE TaskList(_)
TaskList(items) ==
  IF Len(items) = 0 THEN <<>>
  ELSE LET item == items[1]
           children == IF "children" \in DOMAIN item THEN item.children ELSE <<>>
       IN  <<[indent |-> 0, icon |-> statusIcon(item.status),
              priority |-> item.priority, content |-> item.content]>>
           \o [k \in 1..Len(children) |->
                 [indent |-> 2, icon |-> childIcon(children[k].status),
                  priority |-> children[k].priority,
                  content |-> children[k].content]]
           \o TaskList(Tail(items))

\* messages.filter((m) => !isPlanMessage(m.content)).length
FeedbackCountOfList(messages) ==
  Len(SelectSeq(messages, LAMBDA m : ~isPlanMessage(m.content)))

\* plans.sort((a, b) => getTime(b.updatedAt) - getTime(a.updatedAt)): stable
SortByUpdatedAt(entries) ==
  LET before(j, k) ==
        \/ getTime(entries[j].updatedAt) > getTime(entries[k].updatedAt)
        \/ getTime(entries[j].updatedAt) = getTime(entries[k].updatedAt) /\ j < k
      rank(k) == Cardinality({j \in 1..Len(entries) : before(j, k)}) + 1
  IN  [r \in 1..Len(entries) |-> entries[CHOOSE k \in 1..Len(entries) : rank(k) = r]]

PlansList ==
  /\ IF Len(store) = 0
     THEN reply' = [handler |-> "plans_list", text |-> "No shared plans tracked",
                    remote |-> <<>>]
     ELSE LET sorted == SortByUpdatedAt(store)
          IN  reply' =
                [handler |-> "plans_list",
                 text |-> "Shared Plans",
                 lines |-> [r \in 1..Len(sorted) |->
                              [chatId |-> sorted[r].chatId,
                               updatedAt |-> sorted[r].updatedAt,
                               messages |-> extractMessages(chats[sorted[r].chatId]),
                               feedbackCount |->
                                 FeedbackCountOfList(
                                   extractMessages(chats[sorted[r].chatId]))]],
                 remote |-> [r \in 1..Len(sorted) |-> "getChat"]]
  /\ UNCHANGED <<chats, store, clock, subscriptions, timers, polls, observed>>
  /\ UNCHANGED <<codecVars, projectVars, writers>>

(***************************************************************************)
(* The collaborators: anyone with the link of a chat can write in it.      *)
(***************************************************************************)
\* how often the chats were changed after their creation
RECURSIVE SumOfStamps(_)
SumOfStamps(ids) ==
  IF ids = {} THEN 0
  ELSE LET c == CHOOSE x \in ids : TRUE
       IN  chats[c].updated_at - 1 + SumOfStamps(ids \ {c})

Changes == SumOfStamps(DOMAIN chats)

\* a collaborator adds a message to a chat, while fewer than limit changes were made
ReplyWithin(limit) ==
  /\ \E c \in DOMAIN chats, text \in Replies :
       /\ Changes < limit
       /\ chats' = [chats EXCEPT
                      ![c].messages = Append(@, [id |-> Len(@) + 1, content |-> text]),
                      ![c].updated_at = @ + 1]
  /\ UNCHANGED <<store, clock, subscriptions, timers, polls, observed, reply>>
  /\ UNCHANGED <<codecVars, projectVars, writers>>

\* a collaborator edits a message of a chat, while fewer than limit changes were made
RewriteWithin(limit) ==
  /\ \E c \in DOMAIN chats :
       \E k \in 1..Len(chats[c].messages) :
         /\ chats[c].messages[k].content # REWRITTEN
         /\ Changes < limit
         /\ chats' = [chats EXCEPT
                        ![c].messages[k].content = REWRITTEN,
                        ![c].updated_at = @ + 1]
  /\ UNCHANGED <<store, clock, subscriptions, timers, polls, observed, reply>>
  /\ UNCHANGED <<codecVars, projectVars, writers>>

RemoteReply == ReplyWithin(MaxChanges)

RemoteRewrite == RewriteWithin(MaxChanges)

(***************************************************************************)
(* The plan resource: read, subscribe, unsubscribe, and the polls of a     *)
(* subscription.  A poll is two steps, the answer of getChat and the       *)
(* callback's code after the await; polls of one URI may overlap and end   *)
(* in any order.  observed records, for the statements about polling, the  *)
(* updated_at of the chat when the subscription was made and then at each  *)
(* poll that ended.                                                        *)
(***************************************************************************)
ReadPlanResource ==
  /\ \E uri \in Uris :
       LET id == chatIdFromUri(uri)
           answer(text, mime, messages, remote) ==
             [handler |-> "resources/read", uri |-> uri, text |-> text,
              mimeType |-> mime, messages |-> messages, remote |-> remote]
       IN  IF IsNull(id)
           THEN reply' = answer("Unknown resource", "error", <<>>, <<>>)
           ELSE IF id.chatId \notin DOMAIN chats
           THEN reply' = answer("CoChat API error", "error", <<>>, <<"getChat">>)
           ELSE LET messages == extractMessages(chats[id.chatId])
                    k == FindPlanMessage(messages)
                IN  IF k = 0
                    THEN reply' = answer("No plan found in this chat.", "text/plain",
                                         messages, <<"getChat">>)
                    ELSE reply' = [handler |-> "resources/read", uri |-> uri,
                                   text |-> "planMessage.content",
                                   mimeType |-> "text/markdown",
                                   messages |-> messages,
                                   content |-> messages[k].content,
                                   remote |-> <<"getChat">>]
  /\ UNCHANGED <<chats, store, clock, subscriptions, timers, polls, observed>>
  /\ UNCHANGED <<codecVars, projectVars, writers>>

\* a delete that leaves the entry in the Map
WithoutNothing(f, x) == f

\* f without the key x: subscriptions.delete(uri)
Without(f, x) == [y \in DOMAIN f \ {x} |-> f[y]]

\* subscriptions.set(uri, state)
Put(f, x, v) == [y \in DOMAIN f \cup {x} |-> IF y = x THEN v ELSE f[y]]

\* a Map that never reports an entry
HasNoSubscription(uri) == FALSE

\* subscriptions.has(uri)
HasSubscription(uri) == uri \in DOMAIN subscriptions

\* the id setInterval returns: one that no active interval has
NewIntervalId ==
  CHOOSE n \in 1..(Cardinality(timers) + 1) :
    /\ \A t \in timers : t.id # n
    /\ \A k \in 1..(n - 1) : \E t \in timers : t.id = k

SubscribeToPlan ==
  /\ \E uri \in SubscribeUris :
       LET id == chatIdFromUri(uri)
       IN  IF IsNull(id) \/ HasSubscription(uri)
           THEN UNCHANGED <<subscriptions, timers, observed>>
           ELSE LET intervalId == NewIntervalId
                IN  /\ timers' = timers \cup {[id |-> intervalId, uri |-> uri,
                                                chatId |-> id.chatId]}
                    /\ subscriptions' =
                         Put(subscriptions, uri,
                             [chatId |-> id.chatId, lastUpdatedAt |-> 0,
                              intervalId |-> intervalId])
                    /\ observed' =
                         Put(observed, uri,
                             IF id.chatId \in DOMAIN chats
                             THEN chats[id.chatId].updated_at
                             ELSE 0)
  /\ UNCHANGED <<chats, store, clock, polls, reply>>
  /\ UNCHANGED <<codecVars, projectVars, writers>>

UnsubscribeFromPlan ==
  /\ \E uri \in SubscribeUris :
       IF ~HasSubscription(uri)
       THEN UNCHANGED <<subscriptions, timers, observed>>
       ELSE LET state == subscriptions[uri]
            IN  /\ timers' = {t \in timers : t.id # state.intervalId}
                /\ subscriptions' = Without(subscriptions, uri)
                /\ observed' = [u \in DOMAIN observed \ {uri} |-> observed[u]]
  /\ UNCHANGED <<chats, store, clock, polls, reply>>
  /\ UNCHANGED <<codecVars, projectVars, writers>>

\* server.close
CleanupSubscriptions ==
  /\ timers' = {t \in timers :
                  \A uri \in DOMAIN subscriptions : subscriptions[uri].intervalId # t.id}
  /\ subscriptions' = <<>>
  /\ observed' = <<>>
  /\ UNCHANGED <<chats, store, clock, polls, reply>>
  /\ UNCHANGED <<codecVars, projectVars, writers>>

\* an interval fires and getChat is answered
PollFetch ==
  /\ Len(polls) < MaxPolls
  /\ \E t \in timers :
       /\ t.chatId \in DOMAIN chats
       /\ polls' = Append(polls, [uri |-> t.uri,
                                  updated_at |-> chats[t.chatId].updated_at])
  /\ UNCHANGED <<chats, store, clock, subscriptions, timers, observed, reply>>
  /\ UNCHANGED <<codecVars, projectVars, writers>>

\* an interval fires and getChat throws: the catch of the callback
PollFail ==
  /\ \E t \in timers :
       reply' = [handler |-> "poll failed", uri |-> t.uri, notified |-> FALSE]
  /\ UNCHANGED <<chats, store, clock, subscriptions, timers, polls, observed>>
  /\ UNCHANGED <<codecVars, projectVars, writers>>

\* the callback after the await
PollComplete ==
  /\ \E i \in 1..Len(polls) :
       LET poll == polls[i]
           uri == poll.uri
       IN  /\ polls' = SubSeq(polls, 1, i - 1) \o SubSeq(polls, i + 1, Len(polls))
           /\ IF ~HasSubscription(uri)
              THEN /\ reply' = [handler |-> "poll", uri |-> uri, subscribed |-> FALSE,
                                notified |-> FALSE]
                   /\ UNCHANGED <<subscriptions, observed>>
              ELSE LET state == subscriptions[uri]
                       changed == poll.updated_at # state.lastUpdatedAt
                   IN  /\ subscriptions' =
                            IF changed
                            THEN [subscriptions EXCEPT
                                    ![uri].lastUpdatedAt = poll.updated_at]
                            ELSE subscriptions
                       /\ observed' =
                            IF uri \in DOMAIN observed
                            THEN [observed EXCEPT ![uri] = poll.updated_at]
                            ELSE observed
                       /\ reply' = [handler |-> "poll", uri |-> uri, subscribed |-> TRUE,
                                    fetched |-> poll.updated_at,
                                    previous |-> IF uri \in DOMAIN observed
                                                 THEN observed[uri] ELSE 0,
                                    notified |-> changed]
  /\ UNCHANGED <<chats, store, clock, timers>>
  /\ UNCHANGED <<codecVars, projectVars, writers>>

ToolsNext ==
  \/ PlansShare
  \/ PlansUpdate
  \/ PlansPull
  \/ PlansList
  \/ ReadPlanResource
  \/ RemoteReply
  \/ RemoteRewrite

ToolsSpec == Init /\ [][ToolsNext]_vars

(***************************************************************************)
(* plans_share and plans_update with collaborators who edit the chat more  *)
(* than once between two calls.                                            *)
(***************************************************************************)
EditedReply == ReplyWithin(MaxEdits)

EditedRewrite == RewriteWithin(MaxEdits)

UpdateNext ==
  \/ PlansShare
  \/ PlansUpdate
  \/ EditedReply
  \/ EditedRewrite

UpdateSpec == Init /\ [][UpdateNext]_vars

SubscriptionNext ==
  \/ SubscribeToPlan
  \/ UnsubscribeFromPlan
  \/ PollFetch
  \/ PollComplete
  \/ PlansShare
  \/ RemoteReply

SubscriptionSpec == Init /\ [][SubscriptionNext]_vars

(***************************************************************************)
(* plans_share with a backend whose calls can fail.                        *)
(***************************************************************************)
ShareNext ==
  \/ PlansShareOrFail
  \/ PlansList

ShareSpec == Init /\ [][ShareNext]_vars

(***************************************************************************)
(* The project folder.  resolveCurrentProjectFolder is a step up to each   *)
(* of its awaits: tools that run at the same time interleave at them.  A   *)
(* call that returned keeps its result, the remote calls it made and the   *)
(* folder id the stored mapping held when it returned.                     *)
(***************************************************************************)
\* resolveProjectPath() and resolveProjectName() of the working directory
PROJECT_PATH == "/repo"

PROJECT_NAME == "app"

MCP_COCHAT == "mcp-cochat"

\* the arguments of resolveCurrentProjectFolder: an overrideName, or none
ResolveInputs == {<<>>, [overrideName |-> "App"]}

\* s.toLowerCase(), for the names of the model
toLowerCase(s) == IF s = "App" THEN "app" ELSE s

\* loadStore().projects[projectPath]
getProjectMapping(projectPath) ==
  IF projectPath \in DOMAIN projects THEN projects[projectPath] ELSE Undefined

\* store.projects[mapping.projectPath] = mapping
setProjectMapping(mapping) ==
  [q \in DOMAIN projects \cup {mapping.projectPath} |->
     IF q = mapping.projectPath THEN mapping ELSE projects[q]]

\* the answer of listFolders: the folders that were not deleted
listFolders == SelectSeq(folders, LAMBDA f : f.alive)

\* folders.find(name === projectName && meta.source === "mcp-cochat"), then
\* folders.find(name.toLowerCase() === projectName.toLowerCase()): its
\* position, 0 when there is none
FindFolder(listed, projectName) ==
  LET exact == {k \in 1..Len(listed) :
                  listed[k].name = projectName /\ listed[k].source = MCP_COCHAT}
      byName == {k \in 1..Len(listed) :
                   toLowerCase(listed[k].name) = toLowerCase(projectName)}
      first(hits) == CHOOSE k \in hits : \A j \in hits : k <= j
  IN  IF exact # {} THEN first(exact)
      ELSE IF byName # {} THEN first(byName)
      ELSE 0

\* the call returns: after setProjectMapping when mapping is given
Returned(call, folderId, projectName, created, remote, mappings) ==
  [pc |-> "done", folderId |-> folderId, projectName |-> projectName,
   created |-> created, remote |-> remote,
   mapped |-> mappings[PROJECT_PATH].folderId]

ResolveStart ==
  /\ Len(calls) < MaxCalls
  /\ \E input \in ResolveInputs :
       LET projectName == IF "overrideName" \in DOMAIN input
                          THEN input.overrideName ELSE PROJECT_NAME
           existing == getProjectMapping(PROJECT_PATH)
       IN  calls' = Append(calls,
                           [pc |-> IF IsUndefined(existing) THEN "listFolders"
                                   ELSE "getFolder",
                            projectName |-> projectName,
                            existing |-> existing,
                            remote |-> <<>>])
  /\ UNCHANGED <<folders, projects>>
  /\ UNCHANGED <<chats, store, clock, subscriptions, timers, polls, observed, reply>>
  /\ UNCHANGED <<codecVars, writers>>

\* await client.getFolder(existing.folderId)
ResolveGetFolder ==
  /\ \E i \in 1..Len(calls) :
       LET call == calls[i]
           remote == Append(call.remote, "getFolder")
       IN  /\ call.pc = "getFolder"
           /\ IF \E k \in 1..Len(folders) :
                   folders[k].id = call.existing.folderId /\ folders[k].alive
              THEN calls' = [calls EXCEPT
                               ![i] = Returned(call, call.existing.folderId,
                                               call.existing.projectName, FALSE,
                                               remote, projects)]
              ELSE calls' = [calls EXCEPT ![i].pc = "listFolders",
                                          ![i].remote = remote]
  /\ UNCHANGED <<folders, projects>>
  /\ UNCHANGED <<chats, store, clock, subscriptions, timers, polls, observed, reply>>
  /\ UNCHANGED <<codecVars, writers>>

\* await client.listFolders(), and the code up to createFolder
ResolveListFolders ==
  /\ \E i \in 1..Len(calls) :
       LET call == calls[i]
           remote == Append(call.remote, "listFolders")
           listed == listFolders
           k == FindFolder(listed, call.projectName)
       IN  /\ call.pc = "listFolders"
           /\ IF k = 0
              THEN /\ calls' = [calls EXCEPT ![i].pc = "createFolder",
                                             ![i].remote = remote]
                   /\ UNCHANGED projects
              ELSE LET mappings ==
                         setProjectMapping([projectPath |-> PROJECT_PATH,
                                            projectName |-> call.projectName,
                                            folderId |-> listed[k].id])
                   IN  /\ projects' = mappings
                       /\ calls' = [calls EXCEPT
                                      ![i] = Returned(call, listed[k].id,
                                                      call.projectName, FALSE,
                                                      remote, mappings)]
  /\ UNCHANGED folders
  /\ UNCHANGED <<chats, store, clock, subscriptions, timers, polls, observed, reply>>
  /\ UNCHANGED <<codecVars, writers>>

\* await client.createFolder(projectName, meta), and the code after it
ResolveCreateFolder ==
  /\ \E i \in 1..Len(calls) :
       LET call == calls[i]
           remote == Append(call.remote, "createFolder")
           folder == [id |-> Len(folders) + 1, name |-> call.projectName,
                      source |-> MCP_COCHAT, alive |-> TRUE]
           mappings == setProjectMapping([projectPath |-> PROJECT_PATH,
                                          projectName |-> call.projectName,
                                          folderId |-> folder.id])
       IN  /\ call.pc = "createFolder"
           /\ folders' = Append(folders, folder)
           /\ projects' = mappings
           /\ calls' = [calls EXCEPT
                          ![i] = Returned(call, folder.id, call.projectName, TRUE,
                                          remote, mappings)]
  /\ UNCHANGED <<chats, store, clock, subscriptions, timers, polls, observed, reply>>
  /\ UNCHANGED <<codecVars, writers>>

\* a folder is deleted in CoChat
RemoteDeleteFolder ==
  /\ Cardinality({k \in 1..Len(folders) : ~folders[k].alive}) < MaxDeletes
  /\ \E k \in 1..Len(folders) :
       /\ folders[k].alive
       /\ folders' = [folders EXCEPT ![k].alive = FALSE]
  /\ UNCHANGED <<projects, calls>>
  /\ UNCHANGED <<chats, store, clock, subscriptions, timers, polls, observed, reply>>
  /\ UNCHANGED <<codecVars, writers>>

ProjectNext ==
  \/ ResolveStart
  \/ ResolveGetFolder
  \/ ResolveListFolders
  \/ ResolveCreateFolder
  \/ RemoteDeleteFolder

ProjectSpec == Init /\ [][ProjectNext]_vars

(***************************************************************************)
(* The timers of the subscriptions: clients subscribe and unsubscribe, the *)
(* intervals fire, polls fail, and the server is closed.                   *)
(***************************************************************************)
TimerNext ==
  \/ SubscribeToPlan
  \/ UnsubscribeFromPlan
  \/ CleanupSubscriptions
  \/ PollFetch
  \/ PollFail
  \/ PollComplete
  \/ PlansShare

TimerSpec == Init /\ [][TimerNext]_vars

(***************************************************************************)
(* The store file.  A helper of the store reads the whole file, changes    *)
(* its copy and writes the whole file.  Within a process a helper runs to  *)
(* its end before anything else does; the server processes of a user share *)
(* ~/.config/mcp-cochat/store.json, and between the readFileSync and the   *)
(* writeFileSync of one the others run.                                    *)
(***************************************************************************)
\* the server processes that share the store file
MaxProcs == 2

Procs == 1..MaxProcs

\* the chat ids and the project paths the helpers are called with
StoreChatIds == {0, 1}

StorePaths == {PROJECT_PATH}

\* the calls of the helpers that write: trackPlan(plan), untrackPlan(chatId),
\* setProjectMapping(mapping)
StoreCalls ==
  {[helper |-> "trackPlan",
    plan |-> [chatId |-> c, planMessageId |-> 1, title |-> <<"T">>,
              createdAt |-> toISOString(1), updatedAt |-> toISOString(t)]] :
     c \in StoreChatIds, t \in 1..2}
  \cup {[helper |-> "untrackPlan", chatId |-> c] : c \in StoreChatIds}
  \cup {[helper |-> "setProjectMapping",
         mapping |-> [projectPath |-> q, projectName |-> PROJECT_NAME,
                      folderId |-> 1]] : q \in StorePaths}

\* the file as loadStore returns it
loadStore == [projects |-> projects, plans |-> store]

\* store.plans[plan.chatId] = plan, in the copy that was loaded
WithPlan(plans, tracked) ==
  LET hits == {k \in 1..Len(plans) : plans[k].chatId = tracked.chatId}
  IN  IF hits = {} THEN Append(plans, tracked)
      ELSE [plans EXCEPT ![CHOOSE k \in hits : TRUE] = tracked]

\* delete store.plans[chatId], in the copy that was loaded
untrackPlan(plans, chatId) == SelectSeq(plans, LAMBDA t : t.chatId # chatId)

\* the copy a helper passes to saveStore
Changed(loaded, call) ==
  IF call.helper = "trackPlan"
  THEN [loaded EXCEPT !.plans = WithPlan(loaded.plans, call.plan)]
  ELSE IF call.helper = "untrackPlan"
  THEN [loaded EXCEPT !.plans = untrackPlan(loaded.plans, call.chatId)]
  ELSE [loaded EXCEPT !.projects = Put(loaded.projects, call.mapping.projectPath,
                                       call.mapping)]

\* const store = loadStore() of a helper in process p
HelperLoads(p) ==
  /\ p \notin DOMAIN writers
  /\ \E call \in StoreCalls :
       writers' = Put(writers, p, [call |-> call, loaded |-> loadStore])
  /\ UNCHANGED <<chats, store, clock, subscriptions, timers, polls, observed, reply>>
  /\ UNCHANGED <<codecVars, projectVars>>

\* the assignment or delete of the helper, and saveStore(store)
HelperSaves(p) ==
  /\ p \in DOMAIN writers
  /\ LET saved == Changed(writers[p].loaded, writers[p].call)
     IN  /\ store' = saved.plans
         /\ projects' = saved.projects
  /\ writers' = Without(writers, p)
  /\ UNCHANGED <<chats, clock, subscriptions, timers, polls, observed, reply>>
  /\ UNCHANGED <<codecVars, folders, calls>>

StoreNext == \E p \in Procs : HelperLoads(p) \/ HelperSaves(p)

StoreSpec == Init /\ [][StoreNext]_vars

(***************************************************************************)
(* Tree positions, for the statements about a round trip.                  *)
(***************************************************************************)
\* the positions of a forest: the paths of child indices that lead to an item
RECURSIVE Positions(_)
Positions(items) ==
  UNION {{<<k>>} \cup {<<k>> \o q : q \in Positions(ChildrenOf(items[k]))} :
           k \in 1..Len(items)}

RECURSIVE HasPosition(_, _)
HasPosition(items, path) ==
  /\ path[1] <= Len(items)
  /\ Len(path) = 1 \/ HasPosition(ChildrenOf(items[path[1]]), Tail(path))

RECURSIVE ItemAt(_, _)
ItemAt(items, path) ==
  IF Len(path) = 1 THEN items[path[1]]
  ELSE ItemAt(ChildrenOf(items[path[1]]), Tail(path))

RECURSIVE SameShape(_, _)
SameShape(a, b) ==
  /\ Len(a) = Len(b)
  /\ \A k \in 1..Len(a) : SameShape(ChildrenOf(a[k]), ChildrenOf(b[k]))

RECURSIVE NoEmptyChildren(_)
NoEmptyChildren(items) ==
  \A k \in 1..Len(items) :
    "children" \in DOMAIN items[k] =>
      /\ Len(items[k].children) > 0
      /\ NoEmptyChildren(items[k].children)

RoundTrip == pc = "roundtrip"

\* C1: for every Plan with non-empty items the parsed forest has the shape of
\* the serialized one: as many top-level items and, at every position and depth,
\* as many children in the same order.
C1_ShapePreserved ==
  (RoundTrip /\ Len(plan.items) > 0) =>
    (~IsNull(result) /\ SameShape(plan.items, result.items))

\* C2: every item of every Plan, whatever its content and status, comes back at
\* the same tree position with the same status.  Stated for the round trips that
\* keep the shape of the forest, where every position has its item on both sides.
C2_StatusPreserved ==
  (RoundTrip /\ SameShape(plan.items, result.items)) =>
    \A q \in Positions(plan.items) :
      /\ HasPosition(result.items, q)
      /\ ItemAt(result.items, q).status = ItemAt(plan.items, q).status

\* C3: every item content, markdown-special characters included, comes back at
\* the same tree position exactly as it was: nothing dropped, truncated or added.
\* Stated for the round trips that keep the shape of the forest.
C3_ContentPreserved ==
  (RoundTrip /\ SameShape(plan.items, result.items)) =>
    \A q \in Positions(plan.items) :
      /\ HasPosition(result.items, q)
      /\ ItemAt(result.items, q).content = ItemAt(plan.items, q).content

\* C4 as claimed: for every Plan with non-empty items the parsed title is the
\* title that was serialized.
C4_TitlePreserved ==
  (RoundTrip /\ Len(plan.items) > 0) => result.title = plan.title

\* C4 as amended: for every Plan with non-empty items whose title holds no line
\* feed and neither starts nor ends with white space, the parsed title is the title
\* that was serialized, also when it holds ':', '&', parentheses or 'Plan: '.
SingleTrimmedLine(s) == ~Includes(s, NL) /\ Trim(s) = s

C4_TrimmedTitlePreserved ==
  (RoundTrip /\ Len(plan.items) > 0 /\ SingleTrimmedLine(plan.title)) =>
    result.title = plan.title

C4_Witness ==
  /\ RoundTrip
  /\ Len(plan.items) > 0
  /\ plan.title = TITLE_PREFIX \o <<"T">>
  /\ result.title = plan.title

LabelOf(p) ==
  CASE p = "high" -> <<"*", "*", "[", "H", "I", "G", "H", "]", "*", "*">>
    [] p = "medium" -> <<"*", "*", "[", "M", "E", "D", "]", "*", "*">>
    [] p = "low" -> <<"*", "*", "[", "L", "O", "W", "]", "*", "*">>

C6_PriorityPreserved ==
  (RoundTrip /\ SameShape(plan.items, result.items)) =>
    /\ \A p \in PlanItemPriority :
         /\ priorityLabel(p) = LabelOf(p)
         /\ parsePriority(SubSeq(priorityLabel(p), 4, Len(priorityLabel(p)) - 3)) = p
    /\ \A q \in Positions(plan.items) :
         /\ Includes(md, SP \o LabelOf(ItemAt(plan.items, q).priority) \o SP)
         /\ HasPosition(result.items, q)
         /\ ItemAt(result.items, q).priority = ItemAt(plan.items, q).priority

\* C7: isPlanMessage(t) holds exactly when t contains the sentinel, markdownToPlan(t)
\* is null exactly when isPlanMessage(t) is false and a Plan otherwise; both accept
\* every serialized Plan and both reject the empty string.
ContainsSentinel(t) ==
  \E i \in 1..Len(t) :
    /\ i + Len(PLAN_MARKER) - 1 <= Len(t)
    /\ \A k \in 1..Len(PLAN_MARKER) : t[i + k - 1] = PLAN_MARKER[k]

IsPlan(r) == {"title", "items", "metadata"} \subseteq DOMAIN r

C7_MarkerGate ==
  /\ pc \in {"roundtrip", "parsed"} =>
       /\ isPlanMessage(md) = ContainsSentinel(md)
       /\ IsNull(result) = ~isPlanMessage(md)
       /\ IsPlan(result) = isPlanMessage(md)
       /\ md = EMPTY => IsNull(result) /\ ~isPlanMessage(md)
  /\ pc \in {"serialized", "roundtrip"} => isPlanMessage(md)
  /\ RoundTrip => IsPlan(result)

C7_Witness ==
  /\ pc = "parsed"
  /\ IsPlan(result)
  /\ ~StartsWith(md, PLAN_MARKER)
  /\ isPlanMessage(md)

\* C8: the serializer writes [x] exactly for a completed item and [ ] for the three
\* other statuses, appends " *(in progress)*" exactly for in_progress and
\* " ~~cancelled~~" exactly for cancelled, and appends nothing for pending and
\* completed.
ClaimedBox(st) == IF st = "completed" THEN <<"[", "x", "]">> ELSE <<"[", " ", "]">>

ClaimedAnnotation(st) ==
  CASE st = "in_progress" -> SP \o IN_PROGRESS
    [] st = "cancelled" -> SP \o CANCELLED
    [] st \in {"pending", "completed"} -> EMPTY

ClaimedLine(item, depth) ==
  [k \in 1..(2 * depth) |-> " "] \o <<"-", " ">> \o ClaimedBox(item.status) \o SP
    \o LabelOf(item.priority) \o SP \o item.content \o ClaimedAnnotation(item.status)

C8_CheckboxAndAnnotation ==
  pc \in {"serialized", "roundtrip"} =>
    \A q \in Positions(plan.items) :
      LET item == ItemAt(plan.items, q)
          text == formatItem(item, Len(q) - 1)
          line == ClaimedLine(item, Len(q) - 1)
      IN  /\ StartsWith(text, line)
          /\ Len(text) > Len(line) => text[Len(line) + 1] = "\n"
          /\ Includes(md, NL \o line \o NL)

C8_Witness ==
  /\ pc = "serialized"
  /\ \E q \in Positions(plan.items) :
       /\ Len(q) = 2
       /\ ItemAt(plan.items, q).status = "cancelled"
       /\ Includes(md, NL \o <<" ", " ", "-", " ", "[", " ", "]", " ">>
                         \o LabelOf(ItemAt(plan.items, q).priority)
                         \o SP \o ItemAt(plan.items, q).content \o SP \o CANCELLED \o NL)
  /\ \E q \in Positions(plan.items) : ItemAt(plan.items, q).status = "completed"

\* C9: a Plan with items = [], whatever its title, description and metadata,
\* parses back to a Plan whose items is the empty array: no line of the header,
\* description or footer is taken for an item.
C9_EmptyItemsPreserved ==
  (RoundTrip /\ Len(plan.items) = 0) =>
    (~IsNull(result) /\ Len(result.items) = 0)

Occurrences(t, lit) == Cardinality({i \in 1..Len(t) : MatchAt(t, i, lit)})

C11_SentinelOnce ==
  pc \in {"serialized", "roundtrip"} =>
    /\ StartsWith(md, PLAN_MARKER \o NL \o TITLE_PREFIX \o plan.title \o NL)
    /\ Occurrences(md, PLAN_MARKER) = 1

\* C12: the item parsed from a line that matches the item grammar is cancelled
\* if the line contains '~~cancelled~~', otherwise in_progress if it contains
\* '*(in progress)*', otherwise completed if the box is [x] or [X] and pending if
\* it is [ ]: an annotation wins over the box.
RECURSIVE Flatten(_)
Flatten(items) ==
  IF Len(items) = 0 THEN <<>>
  ELSE <<items[1]>> \o Flatten(ChildrenOf(items[1])) \o Flatten(Tail(items))

\* the lines of a document that match the item grammar, in the order of the document
RECURSIVE ItemLines(_)
ItemLines(lines) ==
  IF Len(lines) = 0 THEN <<>>
  ELSE IF ITEM_RE(lines[1]).ok THEN <<lines[1]>> \o ItemLines(Tail(lines))
  ELSE ItemLines(Tail(lines))

\* the character in the box of an item line: it follows the leading white space,
\* the hyphen, the space and the opening bracket
BoxOf(line) == line[SkipSpace(line, 1) + 3]

ClaimedStatus(line) ==
  IF Includes(line, CANCELLED) THEN "cancelled"
  ELSE IF Includes(line, IN_PROGRESS) THEN "in_progress"
  ELSE IF BoxOf(line) \in {"x", "X"} THEN "completed"
  ELSE "pending"

Parsed == pc \in {"roundtrip", "parsed"} /\ ~IsNull(result)

C12_StatusOfLine ==
  Parsed =>
    LET lines == ItemLines(Split(md))
        items == Flatten(result.items)
    IN  /\ Len(items) = Len(lines)
        /\ \A n \in 1..Len(lines) : items[n].status = ClaimedStatus(lines[n])

C12_Witness ==
  /\ pc = "parsed"
  /\ ~IsNull(result)
  /\ \E n \in 1..Len(ItemLines(Split(md))) :
       /\ BoxOf(ItemLines(Split(md))[n]) = "x"
       /\ Includes(ItemLines(Split(md))[n], IN_PROGRESS)
       /\ Includes(ItemLines(Split(md))[n], CANCELLED)
       /\ Flatten(result.items)[n].status = "cancelled"
  /\ \E n \in 1..Len(ItemLines(Split(md))) :
       /\ BoxOf(ItemLines(Split(md))[n]) = "X"
       /\ Flatten(result.items)[n].status = "completed"

\* C13: for every text that contains the sentinel markdownToPlan returns a Plan,
\* with the title 'Untitled Plan' when no line begins with '# Plan: ', the source
\* 'unknown' when there is no provenance line or it gives no source, the current
\* time as updatedAt when there is no provenance line or it gives no date, and one
\* item for each line that matches the item grammar and none for any other line.
TitleLess(lines) == \A k \in 1..Len(lines) : ~StartsWith(lines[k], TITLE_PREFIX)

\* no 'Shared from ' of the line is followed by a character other than '|'
NoSourceIn(line) ==
  \A i \in 1..Len(line) :
    MatchAt(line, i, SHARED_FROM) =>
      \/ i + Len(SHARED_FROM) > Len(line)
      \/ line[i + Len(SHARED_FROM)] = "|"

\* no 'Updated: ' of the line is followed by a character
NoDateIn(line) ==
  \A i \in 1..Len(line) : MatchAt(line, i, UPDATED) => i + Len(UPDATED) > Len(line)

C13_Degrades ==
  (pc \in {"roundtrip", "parsed"} /\ ContainsSentinel(md)) =>
    LET lines == Split(md)
        m == FindIndexStartsWith(lines, META_PREFIX)
    IN  /\ IsPlan(result)
        /\ TitleLess(lines) => result.title = UNTITLED
        /\ (m = 0 \/ NoSourceIn(lines[m])) => result.metadata.source = UNKNOWN
        /\ (m = 0 \/ NoDateIn(lines[m])) =>
             /\ result.metadata.updatedAt \in Nows
             /\ result.metadata.createdAt = result.metadata.updatedAt
        /\ Len(Flatten(result.items)) = Len(ItemLines(lines))

C13_Witness ==
  /\ pc = "parsed"
  /\ ContainsSentinel(md)
  /\ TitleLess(Split(md))
  /\ LET m == FindIndexStartsWith(Split(md), META_PREFIX)
     IN  /\ m # 0
         /\ ~NoSourceIn(Split(md)[m])
         /\ NoDateIn(Split(md)[m])
         /\ IndexOf(Split(md)[m], UPDATED) # 0
  /\ result.title = UNTITLED
  /\ result.metadata.source = <<"s">>
  /\ result.metadata.updatedAt \in Nows
  /\ Len(Split(md)) > Len(ItemLines(Split(md))) + 2
  /\ Len(Flatten(result.items)) = 2

\* C14: for every Plan, whatever its source label and its updatedAt string, the
\* parsed metadata has the source and the updatedAt that were serialized.
C14_MetadataPreserved ==
  RoundTrip =>
    /\ result.metadata.source = plan.metadata.source
    /\ result.metadata.updatedAt = plan.metadata.updatedAt

\* C15: for every document that contains the sentinel, the parsed description is
\* exactly the non-blank lines strictly between the provenance line and the
\* '## Tasks' heading without the '## Overview' lines; it is absent when no such
\* line is left, when the document has no provenance line, and when no '## Tasks'
\* heading follows the provenance line.
RECURSIVE KeptLines(_)
KeptLines(lines) ==
  IF Len(lines) = 0 THEN <<>>
  ELSE IF Trim(lines[1]) = EMPTY \/ Trim(lines[1]) = OVERVIEW
  THEN KeptLines(Tail(lines))
  ELSE <<lines[1]>> \o KeptLines(Tail(lines))

ClaimedDescriptionLines(lines) ==
  LET m == FindIndexStartsWith(lines, META_PREFIX)
      after == {k \in (m + 1)..Len(lines) : StartsWith(lines[k], TASKS)}
  IN  IF m = 0 \/ after = {} THEN <<>>
      ELSE LET t == CHOOSE k \in after : \A j \in after : k <= j
           IN  KeptLines(SubSeq(lines, m + 1, t - 1))

C15_DescriptionSpan ==
  (pc \in {"roundtrip", "parsed"} /\ ContainsSentinel(md)) =>
    LET kept == ClaimedDescriptionLines(Split(md))
    IN  IF kept = <<>> THEN "description" \notin DOMAIN result
        ELSE /\ "description" \in DOMAIN result
             /\ result.description = Join(kept, NL)

\* C16: planToMarkdown is a total function of the title, the description, the
\* source, updatedAt and the items' content, status, priority and nesting: two
\* Plans that differ only in item ids, metadata.createdAt or metadata.sessionId
\* have the same document, and no item id occurs in the document.
RECURSIVE VisibleItems(_)
VisibleItems(items) ==
  [k \in 1..Len(items) |->
     [content |-> items[k].content,
      status |-> items[k].status,
      priority |-> items[k].priority,
      children |-> VisibleItems(ChildrenOf(items[k]))]]

Visible(p) ==
  [title |-> p.title,
   description |-> IF HasDescription(p) THEN p.description ELSE EMPTY,
   source |-> p.metadata.source,
   updatedAt |-> p.metadata.updatedAt,
   items |-> VisibleItems(p.items)]

C16_FunctionOfVisible ==
  pc = "serialized" =>
    /\ md = planToMarkdown(plan)
    /\ \A q \in PlansIdentity : Visible(q) = Visible(plan) => planToMarkdown(q) = md
    /\ plan \in PlansIdentity =>
         \A k \in 1..Len(Flatten(plan.items)) : ~Includes(md, Flatten(plan.items)[k].id)

C16_Witness ==
  /\ pc = "serialized"
  /\ plan \in PlansIdentity
  /\ "sessionId" \in DOMAIN plan.metadata
  /\ \E q \in PlansIdentity :
       /\ "sessionId" \notin DOMAIN q.metadata
       /\ q.metadata.createdAt # plan.metadata.createdAt
       /\ q.items[1].id # plan.items[1].id
       /\ q.items[1].children[1].id # plan.items[1].children[1].id
       /\ Visible(q) = Visible(plan)
       /\ planToMarkdown(q) = md

(***************************************************************************)
(* The statements about the plan tools and the plan resource.              *)
(***************************************************************************)
\* the handler fetched a chat, and no message of it carries the sentinel
FetchedNoPlan(r) ==
  /\ r.handler \in {"plans_pull", "resources/read"}
  /\ r.remote = <<"getChat">>
  /\ r.text # "CoChat API error"
  /\ \A k \in 1..Len(r.messages) : ~ContainsSentinel(r.messages[k].content)

NoPlanTexts ==
  {"has no messages", "does not contain a plan created by this tool",
   "No plan found in this chat."}

\* C17: when the chat that plans_pull or readPlanResource fetched holds no message
\* with the sentinel, the handler returns a text that says so (no error), and
\* plans_pull leaves the tracking store as it was.
C17_NoPlanIsNoError ==
  [][FetchedNoPlan(reply') =>
       /\ reply'.text \in NoPlanTexts
       /\ reply'.handler = "resources/read" => reply'.mimeType = "text/plain"
       /\ reply'.handler = "plans_pull" => store' = store]_vars

C17_Witness ==
  /\ FetchedNoPlan(reply)
  /\ reply.handler = "plans_pull"
  /\ ~reply.given
  /\ Len(reply.messages) > 0
  /\ reply.text = "does not contain a plan created by this tool"
  /\ ~IsUndefined(getTrackedPlan(reply.target))
  /\ getTrackedPlan(reply.target).updatedAt = getTrackedPlan(reply.target).createdAt

\* C18: a poll of a subscribed URI emits a notification exactly when updated_at of
\* the chat differs from what it was at the previous poll of the subscription, or,
\* for the first poll, from what it was when the subscription was made.
C18_NotifiedOnChangeOnly ==
  (reply.handler = "poll" /\ reply.subscribed) =>
    (reply.notified <=> reply.fetched # reply.previous)

\* C19: the messages plans_pull reports as feedback are exactly the messages of
\* the chat that are no plan documents, and plans_list counts as many feedback
\* messages for the chat as plans_pull reports.
C19_FeedbackIsNotPlan ==
  (reply.handler = "plans_pull" /\ "feedback" \in DOMAIN reply) =>
    /\ reply.feedback = SelectSeq(reply.messages, LAMBDA m : ~ContainsSentinel(m.content))
    /\ Len(reply.feedback) = FeedbackCountOfList(reply.messages)

\* C20: the chat plans_pull fetches when it is given no chat_id is the chat of the
\* plans_share call that happened last, whatever plans_update and plans_pull calls
\* came after it; with no tracked plan it returns 'No shared plans found' and
\* makes no remote call.  The tracking store keeps its plans in the order they
\* were shared in.
C20_DefaultIsLastShared ==
  /\ Len(store) > 0 => getMostRecentPlan.chatId = store[Len(store)].chatId
  /\ (reply.handler = "plans_pull" /\ ~reply.given) =>
       IF reply.text = "No shared plans found"
       THEN reply.remote = <<>>
       ELSE Len(store) > 0 /\ reply.target = store[Len(store)].chatId


(***************************************************************************)
(* plans_update.                                                           *)
(***************************************************************************)
\* the documents plans_update can write for a tracked plan
UpdatedDocuments(tracked, now) ==
  {planToMarkdown([title |-> tracked.title,
                   items |-> items,
                   metadata |-> [source |-> CODING_AGENT,
                                 createdAt |-> tracked.createdAt,
                                 updatedAt |-> now]]) : items \in UpdateItems}

UpdateFailed(r) ==
  r.text \in {"is not tracked locally", "does not contain a plan message"}

\* C21: when plans_update reports success it has made one remote write, which
\* replaced the content of the message of the chat that carries the sentinel
\* by the newly serialized plan, and every other message and chat is as it
\* was; when the chat id is not tracked or the chat has no plan message it
\* makes no remote write and the tracking store is as it was.
C21_UpdateWritesPlanMessage ==
  [][PlansUpdate =>
       IF UpdateFailed(reply')
       THEN /\ \A i \in 1..Len(reply'.remote) : reply'.remote[i] # "updateMessage"
            /\ chats' = chats
            /\ store' = store
       ELSE LET c == reply'.target
                before == extractMessages(chats[c])
                after == extractMessages(chats'[c])
                k == FindPlanMessage(before)
            IN  /\ Cardinality({i \in 1..Len(reply'.remote) :
                                  reply'.remote[i] = "updateMessage"}) = 1
                /\ k # 0
                /\ Len(after) = Len(before)
                /\ after[k].content \in
                     UpdatedDocuments(getTrackedPlan(c), toISOString(clock'))
                /\ \A j \in 1..Len(before) : j # k => after[j] = before[j]
                /\ \A d \in DOMAIN chats : d # c => chats'[d] = chats[d]]_vars


(***************************************************************************)
(* The project folder.                                                     *)
(***************************************************************************)
DoneCalls == {i \in 1..Len(calls) : calls[i].pc = "done"}

\* C22: however the calls of resolveCurrentProjectFolder interleave, no two
\* folders of CoChat have the name of the same project; a call that returned
\* has created true exactly when it called createFolder; and when it
\* returned, the stored mapping of the project path held the folder id it
\* returned.
C22_OneFolderPerProject ==
  /\ \A j, k \in 1..Len(folders) :
       (j # k /\ folders[j].alive /\ folders[k].alive) =>
         toLowerCase(folders[j].name) # toLowerCase(folders[k].name)
  /\ \A i \in DoneCalls :
       /\ calls[i].created <=>
            \E n \in 1..Len(calls[i].remote) : calls[i].remote[n] = "createFolder"
       /\ calls[i].mapped = calls[i].folderId


(***************************************************************************)
(* plans_share.                                                            *)
(***************************************************************************)
Before(seq, x, y) ==
  \A i, j \in 1..Len(seq) : (seq[i] = x /\ seq[j] = y) => i < j

Called(seq, x) == \E i \in 1..Len(seq) : seq[i] = x

Invites(input) == "invite_emails" \in DOMAIN input /\ Len(input.invite_emails) > 0

\* C23: plans_share calls createChat before moveChatToFolder,
\* enableCollaboration and setLinkAccess, and inviteUsers exactly when
\* invite_emails is not empty; when all its remote calls succeeded it has
\* added one entry to the tracking store, with the id of the chat it created
\* and the id of the message of that chat that holds the plan document; when
\* a remote call failed the tracking store is as it was.
C23_ShareTracksAfterRemoteCalls ==
  [][(reply'.handler = "plans_share" /\ clock' # clock) =>
       LET made == reply'.remote
           ok == reply'.text = "shared successfully"
       IN  /\ Before(made, "createChat", "moveChatToFolder")
           /\ Before(made, "createChat", "enableCollaboration")
           /\ Before(made, "createChat", "setLinkAccess")
           /\ Called(made, "inviteUsers") => Invites(reply'.input)
           /\ ok => /\ Called(made, "createChat")
                    /\ Called(made, "moveChatToFolder")
                    /\ Called(made, "enableCollaboration")
                    /\ Called(made, "setLinkAccess")
                    /\ Called(made, "inviteUsers") <=> Invites(reply'.input)
                    /\ reply'.target \notin DOMAIN chats
                    /\ reply'.target \in DOMAIN chats'
                    /\ Len(store') = Len(store) + 1
                    /\ SubSeq(store', 1, Len(store)) = store
                    /\ store'[Len(store')].chatId = reply'.target
                    /\ LET messages == extractMessages(chats'[reply'.target])
                           k == FindPlanMessage(messages)
                       IN  /\ k # 0
                           /\ store'[Len(store')].planMessageId = messages[k].id
           /\ ~ok => store' = store]_vars

\* a share failed at inviteUsers after an earlier share was tracked: the chat
\* it created is not tracked
C23_Witness ==
  /\ reply.handler = "plans_share"
  /\ reply.text = "CoChat API error"
  /\ Called(reply.remote, "inviteUsers")
  /\ Len(store) = 1
  /\ Cardinality(DOMAIN chats) = 3


(***************************************************************************)
(* The task list of plans_pull.                                            *)
(***************************************************************************)
\* the plan plans_pull parsed from the plan message it fetched
Pulled(r) == markdownToPlan(r.planMessage.content, r.now)

ClaimedIcon(status) ==
  CASE status = "completed" -> "[DONE]"
    [] status = "in_progress" -> "[IN PROGRESS]"
    [] status = "cancelled" -> "[CANCELLED]"
    [] status = "pending" -> "[PENDING]"

\* C24: the task list plans_pull returns holds, in the order of the plan, one
\* line for every item of the parsed plan at every depth, with the label of
\* the item's own status: [DONE] for completed, [IN PROGRESS] for in_progress,
\* [CANCELLED] for cancelled and [PENDING] for pending.
C24_TaskListComplete ==
  (reply.handler = "plans_pull" /\ "planMessage" \in DOMAIN reply) =>
    LET all == Flatten(Pulled(reply).items)
        listed == TaskList(Pulled(reply).items)
    IN  /\ Len(listed) = Len(all)
        /\ \A k \in 1..Len(all) :
             /\ listed[k].content = all[k].content
             /\ listed[k].icon = ClaimedIcon(all[k].status)


(***************************************************************************)
(* buildTree.                                                              *)
(***************************************************************************)
\* the matched lines of the document that was parsed
Matched == parseLines(Split(md), 0)

Size(items) == Len(Flatten(items))

\* for the items of a forest in pre-order, the pre-order number of the parent
\* of each (0 at the top level); the first item of the forest has number first + 1
RECURSIVE ParentsOf(_, _, _)
ParentsOf(items, parent, first) ==
  IF Len(items) = 0 THEN <<>>
  ELSE LET me == first + 1
           kids == ChildrenOf(items[1])
       IN  <<parent>> \o ParentsOf(kids, me, me)
           \o ParentsOf(Tail(items), parent, me + Size(kids))

\* the nearest line before line k with a strictly smaller indent, 0 if there is none
NearestShallower(parsed, k) ==
  LET above == {j \in 1..(k - 1) : parsed[j].indent < parsed[k].indent}
  IN  IF above = {} THEN 0 ELSE CHOOSE j \in above : \A i \in above : i <= j

\* the stack of buildTree after n matched lines, by the indents of its frames
RECURSIVE StackAfter(_, _)
StackAfter(parsed, n) ==
  IF n = 0 THEN <<[indent |-> -2]>>
  ELSE Append(PopFrames(StackAfter(parsed, n - 1), parsed[n].indent),
              [indent |-> parsed[n].indent])

WithoutChildren(item) == [f \in DOMAIN item \ {"children"} |-> item[f]]

\* C25: the pre-order of the forest buildTree returns is the matched lines in
\* the order of the document, each once; the parent of an item is the nearest
\* matched line before it with a strictly smaller indent, and the item is at
\* the top level when there is none; the root frame stays on the stack.
C25_TreeOfIndents ==
  (pc \in {"roundtrip", "parsed"} /\ ~IsNull(result)) =>
    LET parsed == Matched
        flat == Flatten(result.items)
        parents == ParentsOf(result.items, 0, 0)
    IN  /\ Len(flat) = Len(parsed)
        /\ \A k \in 1..Len(parsed) :
             /\ WithoutChildren(flat[k]) = parsed[k].item
             /\ parents[k] = NearestShallower(parsed, k)
        /\ \A n \in 0..Len(parsed) : StackAfter(parsed, n)[1].indent = -2

\* a document with two lines of the same indent, a line indented by more than
\* one level under the line before it, and a line that closes several levels
C25_Witness ==
  /\ pc = "parsed"
  /\ ~IsNull(result)
  /\ \E k \in 2..Len(Matched) : Matched[k].indent = Matched[k - 1].indent
  /\ \E k \in 2..Len(Matched) : Matched[k].indent >= Matched[k - 1].indent + 4
  /\ \E k \in 2..Len(Matched) : Matched[k].indent + 4 <= Matched[k - 1].indent


(***************************************************************************)
(* The task lines of planToMarkdown.                                       *)
(***************************************************************************)
\* the depths of the items of a forest, in pre-order
RECURSIVE DepthsOf(_, _)
DepthsOf(items, depth) ==
  IF Len(items) = 0 THEN <<>>
  ELSE <<depth>> \o DepthsOf(ChildrenOf(items[1]), depth + 1)
       \o DepthsOf(Tail(items), depth)

\* the lines planToMarkdown pushes for the items of a plan
EmittedTaskLines(p) ==
  IF Len(p.items) = 0 THEN <<>>
  ELSE Split(Join([k \in 1..Len(p.items) |-> formatItem(p.items[k], 0)], NL))

\* C26: planToMarkdown emits one task line for every item of the forest, in
\* pre-order, and the line of an item at depth d begins with 2*d spaces and
\* "- " and carries the item's content.
C26_OneIndentedLinePerItem ==
  pc \in {"serialized", "roundtrip"} =>
    LET emitted == EmittedTaskLines(plan)
        flat == Flatten(plan.items)
        depths == DepthsOf(plan.items, 0)
    IN  /\ Len(emitted) = Len(flat)
        /\ \A k \in 1..Len(flat) :
             /\ StartsWith(emitted[k],
                           Repeat(SP, 2 * depths[k]) \o <<"-", " ", "[">>)
             /\ Includes(emitted[k], flat[k].content)
        /\ Len(flat) > 0 => Includes(md, NL \o Join(emitted, NL) \o NL)


(***************************************************************************)
(* Repeated round trips.                                                   *)
(***************************************************************************)
\* what a second round trip makes of a parsed plan
Again(q, now) == markdownToPlan(planToMarkdown(q), now)

\* C27: the plan Q that a round trip returns is a fixed point: another round
\* trip of Q returns a plan with the title, description, source, updatedAt
\* and item forest (content, status, priority and shape) of Q.
C27_RoundTripStable ==
  (RoundTrip /\ ~IsNull(result)) =>
    \A now \in Nows :
      /\ ~IsNull(Again(result, now))
      /\ Visible(Again(result, now)) = Visible(result)


(***************************************************************************)
(* The timers of the subscriptions.                                        *)
(***************************************************************************)
TimerUris == {t.uri : t \in timers}

\* C28: every plan URI has at most one active timer, the active timers are
\* the timers of the entries of the subscription map, one for each entry,
\* and after cleanupSubscriptions no timer and no entry is left.
C28_TimersAreSubscriptions ==
  /\ [](/\ \A t, u \in timers : t.uri = u.uri => t = u
        /\ TimerUris = DOMAIN subscriptions
        /\ \A uri \in DOMAIN subscriptions :
             \E t \in timers : t.uri = uri /\ t.id = subscriptions[uri].intervalId)
  /\ [][CleanupSubscriptions => (timers' = {} /\ subscriptions' = <<>>)]_vars

\* the first timer was cleared and the second is the only one left
C28_Witness ==
  /\ Cardinality(timers) = 1
  /\ \A t \in timers : t.id = 2
  /\ Cardinality(DOMAIN subscriptions) = 1

ForChat(call, chatId) ==
  \/ call.helper = "trackPlan" /\ call.plan.chatId = chatId
  \/ call.helper = "untrackPlan" /\ call.chatId = chatId

\* C30: a plan that a completed trackPlan recorded is returned unchanged by
\* getTrackedPlan for as long as no process is in a trackPlan or an untrackPlan
\* for its chat id: calls of trackPlan, untrackPlan and setProjectMapping for
\* other keys, of this process or of another that shares the store file,
\* neither remove nor alter it
C30_TrackedPlanStaysRetrievable ==
  [][\A c \in StoreChatIds :
       (/\ ~IsUndefined(getTrackedPlan(c))
        /\ \A p \in DOMAIN writers : ~ForChat(writers[p].call, c))
       => getTrackedPlan(c)' = getTrackedPlan(c)]_vars

=============================================================================
